---- MODULE Spec2Model ----
(* Advantech AHC1EC0 embedded-controller core driver (drivers/mfd/ahc1ec0.c).     *)
(* The host talks to the EC through two I/O ports with a busy-bit handshake.      *)
(* Every logical operation is a fixed sequence of port accesses made while        *)
(* holding the context mutex.  Each C function is written down as its list of     *)
(* statements (an instruction sequence with the labels of the source); the        *)
(* actions below execute one statement of one thread at a time, one port access   *)
(* per step.                                                                      *)
EXTENDS Integers, Sequences, FiniteSets, TLC

(* ------------------------------------------------------------------ *)
(* Program constants                                                    *)
(* ------------------------------------------------------------------ *)
EC_COMMAND_PORT == 666
EC_STATUS_PORT == 665
EC_MAX_TIMEOUT_COUNT == 5000
EC_COMMAND_BIT_OBF == 1
EC_COMMAND_BIT_IBF == 2
EC_AD_INDEX_WRITE == 21
EC_AD_LSB_READ == 22
EC_AD_MSB_READ == 31
EC_ACPI_RAM_READ == 128
EC_ACPI_DATA_WRITE == 129
EC_TBL_WRITE_ITEM == 32
EC_TBL_GET_PIN == 33
EC_TBL_GET_DEVID == 34
EC_MAX_TBL_NUM == 32
EC_HW_RAM_READ == 136
EC_HW_RAM_WRITE == 137
EC_GPIO_INDEX_WRITE == 16
EC_GPIO_STATUS_READ == 17
EC_GPIO_STATUS_WRITE == 18
EC_GPIO_DIR_READ == 29
EC_GPIO_DIR_WRITE == 30
ETIMEDOUT == 110
EINVAL == 22
EC_DID_CMOSBAT == 80
EC_DID_CMOSBAT_X2 == 81
EC_DID_CMOSBAT_X10 == 82
EC_DID_12VS0 == 98
EC_DID_12VS0_X2 == 99
EC_DID_12VS0_X10 == 100
EC_DID_DC == 107
EC_DID_DC_X2 == 108
EC_DID_DC_X10 == 109
EC_ACPI_THERMAL1_REMOTE_TEMP == 97
EC_ACPI_THERMAL1_LOCAL_TEMP == 96
EOPNOTSUPP == 95
EC_DID_5VS0 == 86
EC_DID_5VS0_X2 == 87
EC_DID_5VS0_X10 == 88
EC_DID_5VS5 == 89
EC_DID_5VS5_X2 == 90
EC_DID_5VS5_X10 == 91
EC_DID_VCOREA == 101
EC_DID_VCOREA_X2 == 102
EC_DID_VCOREA_X10 == 103
EC_DID_VCOREB == 104
EC_DID_VCOREB_X2 == 105
EC_DID_VCOREB_X10 == 106
EC_DID_CURRENT == 116
EC_WDT_START == 40
EC_WDT_STOP == 41
EC_WDT_RESET == 42
EC_RESET_DELAY_TIME_H == 94
EC_RESET_DELAY_TIME_L == 95
EC_WDT_DEFAULT_TIMEOUT == 45
\* enum ADVEC_SUBDEV_*
ADVEC_SUBDEV_HWMON == 3
ADVEC_SUBDEV_WDT == 5
ADVEC_SUBDEV_MAX == 6
\* ARRAY_SIZE(advec_profile)
ADVEC_PROFILE_SIZE == 4
\* 0xff: "table item is not defined" / invalid pin readback
UNDEFINED_BYTE == 255

(* ------------------------------------------------------------------ *)
(* Bounds of the model                                                  *)
(* ------------------------------------------------------------------ *)
\* logical-operation calls made in one behaviour
MaxCalls == 2
\* retry budget of a wait step where the full EC_MAX_TIMEOUT_COUNT is not needed
MaxPolls == 2
\* leading slots of the EC's table whose binding is chosen freely
MaxSlot == 2

NoOwner == 0 - 1
ProbeThread == 0
\* the callers of the logical operations: the two consumer sub-devices of this
\* repository, hwmon and watchdog
Consumers == {1, 2}
Threads == {ProbeThread} \cup Consumers

(* ------------------------------------------------------------------ *)
(* C integer arithmetic                                                 *)
(* ------------------------------------------------------------------ *)
RECURSIVE BitAnd(_, _)
BitAnd(x, y) ==
    IF x = 0 \/ y = 0 THEN 0
    ELSE (IF x % 2 = 1 /\ y % 2 = 1 THEN 1 ELSE 0) + 2 * BitAnd(x \div 2, y \div 2)

RECURSIVE BitOr(_, _)
BitOr(x, y) ==
    IF x = 0 THEN y
    ELSE IF y = 0 THEN x
    ELSE (IF x % 2 = 1 \/ y % 2 = 1 THEN 1 ELSE 0) + 2 * BitOr(x \div 2, y \div 2)

Shl(x, n) == x * (2 ^ n)

(* ------------------------------------------------------------------ *)
(* Statements                                                           *)
(* ------------------------------------------------------------------ *)
LOCK == [k |-> "mutex_lock"]
\* ret = ec_wait_write(); if (ret) goto error;
WW == [k |-> "wait", f |-> "ec_wait_write"]
\* ret = ec_wait_read(); if (ret) goto error;
WR == [k |-> "wait", f |-> "ec_wait_read"]
OUTB(v, port) == [k |-> "outb", v |-> v, port |-> port]
\* dst = inb(EC_STATUS_PORT)
INB(dst) == [k |-> "inb", dst |-> dst, ff |-> "none"]
\* dst = inb(EC_STATUS_PORT); if (dst == 0xff) goto <ff>
INBFF(dst, ff) == [k |-> "inb", dst |-> dst, ff |-> ff]
\* mutex_unlock(&adv_ec_data->lock); return <what>;
UNLOCK_RETURN(what) == [k |-> "return", unlock |-> TRUE, what |-> what, multi |-> 0]
\* ... return ret_val;  of read_ad_value
UNLOCK_RETURN_AD(multi) == [k |-> "return", unlock |-> TRUE, what |-> "ret_val", multi |-> multi]
TBLINIT == [k |-> "tbl_init"]
TBLSTORE == [k |-> "tbl_store"]
\* i++; if (i < EC_MAX_TBL_NUM) continue at statement <top>
LOOP(top) == [k |-> "loop", top |-> top]


(* ------------------------------------------------------------------ *)
(* The functions of ahc1ec0.c, statement by statement.  "main" is the   *)
(* function body, the other fields are its labels / early exits.        *)
(* ------------------------------------------------------------------ *)
\* the error path returning with the lock held
read_hw_ram_error_keeps_lock(addr) ==
    [main  |-> << LOCK,
                  WW, OUTB(EC_HW_RAM_READ, EC_COMMAND_PORT),
                  WW, OUTB(addr, EC_STATUS_PORT),
                  WR, INB("data"),
                  UNLOCK_RETURN("ret") >>,
     error |-> << [k |-> "return", unlock |-> FALSE, what |-> "ret", multi |-> 0] >>]

read_hw_ram(addr) ==
    [main  |-> << LOCK,
                  WW, OUTB(EC_HW_RAM_READ, EC_COMMAND_PORT),
                  WW, OUTB(addr, EC_STATUS_PORT),
                  WR, INB("data"),
                  UNLOCK_RETURN("ret") >>,
     error |-> << UNLOCK_RETURN("ret") >>]

\* address and data bytes written in the wrong order
write_hw_ram_swapped(addr, data) ==
    [main  |-> << LOCK,
                  WW, OUTB(EC_HW_RAM_WRITE, EC_COMMAND_PORT),
                  WW, OUTB(data, EC_STATUS_PORT),
                  WW, OUTB(addr, EC_STATUS_PORT),
                  UNLOCK_RETURN("zero") >>,
     error |-> << UNLOCK_RETURN("ret") >>]

write_hw_ram(addr, data) ==
    [main  |-> << LOCK,
                  WW, OUTB(EC_HW_RAM_WRITE, EC_COMMAND_PORT),
                  WW, OUTB(addr, EC_STATUS_PORT),
                  WW, OUTB(data, EC_STATUS_PORT),
                  UNLOCK_RETURN("zero") >>,
     error |-> << UNLOCK_RETURN("ret") >>]

\* an undefined item skips to the next slot instead of ending the loop
adv_get_dynamic_tab_continue(i) ==
    [main  |-> << LOCK, TBLINIT,
                  WW, OUTB(EC_TBL_WRITE_ITEM, EC_COMMAND_PORT),
                  WW, OUTB(i, EC_STATUS_PORT),
                  WR, INBFF("pin_tmp", "skip"),
                  WW, OUTB(EC_TBL_GET_PIN, EC_COMMAND_PORT),
                  WR, INBFF("pin_tmp", "skip"),
                  WW, OUTB(EC_TBL_GET_DEVID, EC_COMMAND_PORT),
                  WR, INB("device_id"),
                  TBLSTORE, LOOP(3) >>,
     skip  |-> << LOOP(3) >>,
     pass  |-> << UNLOCK_RETURN("zero") >>,
     error |-> << UNLOCK_RETURN("ret") >>]

\* the pin and device-id requests exchanged
adv_get_dynamic_tab_swapped(i) ==
    [main  |-> << LOCK, TBLINIT,
                  WW, OUTB(EC_TBL_WRITE_ITEM, EC_COMMAND_PORT),
                  WW, OUTB(i, EC_STATUS_PORT),
                  WR, INBFF("pin_tmp", "pass"),
                  WW, OUTB(EC_TBL_GET_DEVID, EC_COMMAND_PORT),
                  WR, INBFF("pin_tmp", "pass"),
                  WW, OUTB(EC_TBL_GET_PIN, EC_COMMAND_PORT),
                  WR, INB("device_id"),
                  TBLSTORE, LOOP(3) >>,
     pass  |-> << UNLOCK_RETURN("zero") >>,
     error |-> << UNLOCK_RETURN("ret") >>]

\* the error path clears the table again before it returns
adv_get_dynamic_tab_reset(i) ==
    [main  |-> << LOCK, TBLINIT,
                  WW, OUTB(EC_TBL_WRITE_ITEM, EC_COMMAND_PORT),
                  WW, OUTB(i, EC_STATUS_PORT),
                  WR, INBFF("pin_tmp", "pass"),
                  WW, OUTB(EC_TBL_GET_PIN, EC_COMMAND_PORT),
                  WR, INBFF("pin_tmp", "pass"),
                  WW, OUTB(EC_TBL_GET_DEVID, EC_COMMAND_PORT),
                  WR, INB("device_id"),
                  TBLSTORE, LOOP(3) >>,
     pass  |-> << UNLOCK_RETURN("zero") >>,
     error |-> << TBLINIT, UNLOCK_RETURN("ret") >>]

\* the pin answered is stored without the 0xff check
adv_get_dynamic_tab_pin_unchecked(i) ==
    [main  |-> << LOCK, TBLINIT,
                  WW, OUTB(EC_TBL_WRITE_ITEM, EC_COMMAND_PORT),
                  WW, OUTB(i, EC_STATUS_PORT),
                  WR, INBFF("pin_tmp", "pass"),
                  WW, OUTB(EC_TBL_GET_PIN, EC_COMMAND_PORT),
                  WR, INB("pin_tmp"),
                  WW, OUTB(EC_TBL_GET_DEVID, EC_COMMAND_PORT),
                  WR, INB("device_id"),
                  TBLSTORE, LOOP(3) >>,
     pass  |-> << UNLOCK_RETURN("zero") >>,
     error |-> << UNLOCK_RETURN("ret") >>]

\* the table built without taking the lock
adv_get_dynamic_tab_unlocked(i) ==
    [main  |-> << TBLINIT,
                  WW, OUTB(EC_TBL_WRITE_ITEM, EC_COMMAND_PORT),
                  WW, OUTB(i, EC_STATUS_PORT),
                  WR, INBFF("pin_tmp", "pass"),
                  WW, OUTB(EC_TBL_GET_PIN, EC_COMMAND_PORT),
                  WR, INBFF("pin_tmp", "pass"),
                  WW, OUTB(EC_TBL_GET_DEVID, EC_COMMAND_PORT),
                  WR, INB("device_id"),
                  TBLSTORE, LOOP(2) >>,
     pass  |-> << UNLOCK_RETURN("zero") >>,
     error |-> << UNLOCK_RETURN("ret") >>]

adv_get_dynamic_tab(i) ==
    [main  |-> << LOCK, TBLINIT,
                  WW, OUTB(EC_TBL_WRITE_ITEM, EC_COMMAND_PORT),
                  WW, OUTB(i, EC_STATUS_PORT),
                  WR, INBFF("pin_tmp", "pass"),
                  WW, OUTB(EC_TBL_GET_PIN, EC_COMMAND_PORT),
                  WR, INBFF("pin_tmp", "pass"),
                  WW, OUTB(EC_TBL_GET_DEVID, EC_COMMAND_PORT),
                  WR, INB("device_id"),
                  TBLSTORE, LOOP(3) >>,
     pass  |-> << UNLOCK_RETURN("zero") >>,
     error |-> << UNLOCK_RETURN("ret") >>]

\* the high byte requested and read before the low byte
read_ad_value_msb_first(hwpin, multi) ==
    [main  |-> << LOCK,
                  WW, OUTB(EC_AD_INDEX_WRITE, EC_COMMAND_PORT),
                  WW, OUTB(hwpin, EC_STATUS_PORT),
                  WR, INBFF("chk", "bad"),
                  WW, OUTB(EC_AD_MSB_READ, EC_COMMAND_PORT),
                  WR, INB("MSB"),
                  WW, OUTB(EC_AD_LSB_READ, EC_COMMAND_PORT),
                  WR, INB("LSB"),
                  UNLOCK_RETURN_AD(multi) >>,
     bad   |-> << UNLOCK_RETURN("minus1") >>,
     error |-> << UNLOCK_RETURN("ret") >>]

\* the table cleared again while the value is read
read_ad_value_clears_table(hwpin, multi) ==
    [main  |-> << LOCK,
                  TBLINIT,
                  WW, OUTB(EC_AD_INDEX_WRITE, EC_COMMAND_PORT),
                  WW, OUTB(hwpin, EC_STATUS_PORT),
                  WR, INBFF("chk", "bad"),
                  WW, OUTB(EC_AD_LSB_READ, EC_COMMAND_PORT),
                  WR, INB("LSB"),
                  WW, OUTB(EC_AD_MSB_READ, EC_COMMAND_PORT),
                  WR, INB("MSB"),
                  UNLOCK_RETURN_AD(multi) >>,
     bad   |-> << UNLOCK_RETURN("minus1") >>,
     error |-> << UNLOCK_RETURN("ret") >>]

read_ad_value(hwpin, multi) ==
    [main  |-> << LOCK,
                  WW, OUTB(EC_AD_INDEX_WRITE, EC_COMMAND_PORT),
                  WW, OUTB(hwpin, EC_STATUS_PORT),
                  WR, INBFF("chk", "bad"),
                  WW, OUTB(EC_AD_LSB_READ, EC_COMMAND_PORT),
                  WR, INB("LSB"),
                  WW, OUTB(EC_AD_MSB_READ, EC_COMMAND_PORT),
                  WR, INB("MSB"),
                  UNLOCK_RETURN_AD(multi) >>,
     bad   |-> << UNLOCK_RETURN("minus1") >>,
     error |-> << UNLOCK_RETURN("ret") >>]

\* ret_val = ((MSB << 8) | LSB) & 0x03FF; ret_val = ret_val * multi * 100; return ret_val;
\* the sample not masked to ten bits
ad_ret_val_16bit(LSB, MSB, multi) ==
    BitAnd(BitOr(Shl(MSB, 8), LSB), 65535) * multi * 100

ad_ret_val_8bit(LSB, MSB, multi) ==
    BitAnd(BitOr(Shl(MSB, 8), LSB), 255) * multi * 100

\* (the u32 product is at most 1023 * 255 * 100, below 2^31: no wrap, and the int
\*  returned is the same number; TLC itself stops on any overflow of its 32-bit ints)
ad_ret_val(LSB, MSB, multi) ==
    BitAnd(BitOr(Shl(MSB, 8), LSB), 1023) * multi * 100

\* the HW RAM opcode in place of the ACPI one
read_acpi_value_ram_opcode(addr) ==
    [main  |-> << LOCK,
                  WW, OUTB(EC_HW_RAM_READ, EC_COMMAND_PORT),
                  WW, OUTB(addr, EC_STATUS_PORT),
                  WR, INB("data"),
                  UNLOCK_RETURN("zero") >>,
     error |-> << UNLOCK_RETURN("ret") >>]

read_acpi_value(addr) ==
    [main  |-> << LOCK,
                  WW, OUTB(EC_ACPI_RAM_READ, EC_COMMAND_PORT),
                  WW, OUTB(addr, EC_STATUS_PORT),
                  WR, INB("data"),
                  UNLOCK_RETURN("zero") >>,
     error |-> << UNLOCK_RETURN("ret") >>]

write_acpi_value(addr, value) ==
    [main  |-> << LOCK,
                  WW, OUTB(EC_ACPI_DATA_WRITE, EC_COMMAND_PORT),
                  WW, OUTB(addr, EC_STATUS_PORT),
                  WW, OUTB(value, EC_STATUS_PORT),
                  UNLOCK_RETURN("zero") >>,
     error |-> << UNLOCK_RETURN("ret") >>]

read_gpio_status_bad_keeps_lock(PinNumber) ==
    [main  |-> << LOCK,
                  WW, OUTB(EC_GPIO_INDEX_WRITE, EC_COMMAND_PORT),
                  WW, OUTB(PinNumber, EC_STATUS_PORT),
                  WR, INBFF("chk", "bad"),
                  WW, OUTB(EC_GPIO_STATUS_READ, EC_COMMAND_PORT),
                  WR, INB("data"),
                  UNLOCK_RETURN("zero") >>,
     bad   |-> << [k |-> "return", unlock |-> FALSE, what |-> "minus1", multi |-> 0] >>,
     error |-> << UNLOCK_RETURN("ret") >>]

read_gpio_status(PinNumber) ==
    [main  |-> << LOCK,
                  WW, OUTB(EC_GPIO_INDEX_WRITE, EC_COMMAND_PORT),
                  WW, OUTB(PinNumber, EC_STATUS_PORT),
                  WR, INBFF("chk", "bad"),
                  WW, OUTB(EC_GPIO_STATUS_READ, EC_COMMAND_PORT),
                  WR, INB("data"),
                  UNLOCK_RETURN("zero") >>,
     bad   |-> << UNLOCK_RETURN("minus1") >>,
     error |-> << UNLOCK_RETURN("ret") >>]

write_gpio_status(PinNumber, value) ==
    [main  |-> << LOCK,
                  WW, OUTB(EC_GPIO_INDEX_WRITE, EC_COMMAND_PORT),
                  WW, OUTB(PinNumber, EC_STATUS_PORT),
                  WR, INBFF("chk", "bad"),
                  WW, OUTB(EC_GPIO_STATUS_WRITE, EC_COMMAND_PORT),
                  WW, OUTB(value, EC_STATUS_PORT),
                  UNLOCK_RETURN("zero") >>,
     bad   |-> << UNLOCK_RETURN("minus1") >>,
     error |-> << UNLOCK_RETURN("ret") >>]

\* the index readback stored through pvalue
read_gpio_dir_stores_readback(PinNumber) ==
    [main  |-> << LOCK,
                  WW, OUTB(EC_GPIO_INDEX_WRITE, EC_COMMAND_PORT),
                  WW, OUTB(PinNumber, EC_STATUS_PORT),
                  WR, INBFF("data", "bad"),
                  WW, OUTB(EC_GPIO_DIR_READ, EC_COMMAND_PORT),
                  WR, INB("data"),
                  UNLOCK_RETURN("zero") >>,
     bad   |-> << UNLOCK_RETURN("minus1") >>,
     error |-> << UNLOCK_RETURN("ret") >>]

read_gpio_dir(PinNumber) ==
    [main  |-> << LOCK,
                  WW, OUTB(EC_GPIO_INDEX_WRITE, EC_COMMAND_PORT),
                  WW, OUTB(PinNumber, EC_STATUS_PORT),
                  WR, INBFF("chk", "bad"),
                  WW, OUTB(EC_GPIO_DIR_READ, EC_COMMAND_PORT),
                  WR, INB("data"),
                  UNLOCK_RETURN("zero") >>,
     bad   |-> << UNLOCK_RETURN("minus1") >>,
     error |-> << UNLOCK_RETURN("ret") >>]

\* the direction opcode written before the index readback is read
write_gpio_dir_opcode_first(PinNumber, value) ==
    [main  |-> << LOCK,
                  WW, OUTB(EC_GPIO_INDEX_WRITE, EC_COMMAND_PORT),
                  WW, OUTB(PinNumber, EC_STATUS_PORT),
                  WW, OUTB(EC_GPIO_DIR_WRITE, EC_COMMAND_PORT),
                  WR, INBFF("chk", "bad"),
                  WW, OUTB(value, EC_STATUS_PORT),
                  UNLOCK_RETURN("zero") >>,
     bad   |-> << UNLOCK_RETURN("minus1") >>,
     error |-> << UNLOCK_RETURN("ret") >>]

write_gpio_dir(PinNumber, value) ==
    [main  |-> << LOCK,
                  WW, OUTB(EC_GPIO_INDEX_WRITE, EC_COMMAND_PORT),
                  WW, OUTB(PinNumber, EC_STATUS_PORT),
                  WR, INBFF("chk", "bad"),
                  WW, OUTB(EC_GPIO_DIR_WRITE, EC_COMMAND_PORT),
                  WW, OUTB(value, EC_STATUS_PORT),
                  UNLOCK_RETURN("zero") >>,
     bad   |-> << UNLOCK_RETURN("minus1") >>,
     error |-> << UNLOCK_RETURN("ret") >>]

\* the byte sent to the data port
write_hwram_command_data_port(data) ==
    [main  |-> << LOCK,
                  WW, OUTB(data, EC_STATUS_PORT),
                  UNLOCK_RETURN("zero") >>,
     error |-> << UNLOCK_RETURN("ret") >>]

write_hwram_command_unlocked(data) ==
    [main  |-> << WW, OUTB(data, EC_COMMAND_PORT),
                  UNLOCK_RETURN("zero") >>,
     error |-> << UNLOCK_RETURN("ret") >>]

write_hwram_command(data) ==
    [main  |-> << LOCK,
                  WW, OUTB(data, EC_COMMAND_PORT),
                  UNLOCK_RETURN("zero") >>,
     error |-> << UNLOCK_RETURN("ret") >>]

\* the function a thread is in, with its arguments a, b bound
Function(o, a, b, i) ==
    CASE o = "read_hw_ram"         -> read_hw_ram(a)
      [] o = "write_hw_ram"        -> write_hw_ram(a, b)
      [] o = "adv_get_dynamic_tab" -> adv_get_dynamic_tab(i)
      [] o = "read_ad_value"       -> read_ad_value(a, b)
      [] o = "read_acpi_value"     -> read_acpi_value(a)
      [] o = "write_acpi_value"    -> write_acpi_value(a, b)
      [] o = "read_gpio_status"    -> read_gpio_status(a)
      [] o = "write_gpio_status"   -> write_gpio_status(a, b)
      [] o = "read_gpio_dir"       -> read_gpio_dir(a)
      [] o = "write_gpio_dir"      -> write_gpio_dir(a, b)
      [] o = "write_hwram_command" -> write_hwram_command(a)

ec_wait_loop_inclusive(i, max) == i <= max
\* for (i = 0; i < EC_MAX_TIMEOUT_COUNT; i++)
ec_wait_loop(i, max) == i < max
ec_wait_write_obf(status) == BitAnd(status, EC_COMMAND_BIT_OBF) = 0
\* if ((inb(EC_COMMAND_PORT) & EC_COMMAND_BIT_IBF) == 0) return 0;
ec_wait_write(status) == BitAnd(status, EC_COMMAND_BIT_IBF) = 0
\* if ((inb(EC_COMMAND_PORT) & EC_COMMAND_BIT_OBF) != 0) return 0;
ec_wait_read(status) == BitAnd(status, EC_COMMAND_BIT_OBF) # 0

(* ------------------------------------------------------------------ *)
(* State                                                                *)
(* ------------------------------------------------------------------ *)
VARIABLES
    \* struct adv_ec_platform_data
    lock,               \* owner of adv_ec_data->lock, NoOwner when free
    dym_tbl,            \* adv_ec_data->dym_tbl[EC_MAX_TBL_NUM]
    probe,              \* progress of adv_ec_probe
    sub_dev_mask,       \* adv_ec_data->sub_dev_mask
    probe_ret,          \* value adv_ec_probe returned
    props,              \* the device properties adv_ec_parse_prop has read
    hwmon,              \* the hwmon sub-device: its probe's outcome and ec_hwmon_data
    wdt,                \* the watchdog sub-device: ec_wdt_data and the watchdog core's flag
    frame,              \* per thread, the sub-device driver function it executes
    nops,               \* sub-device driver functions entered so far
    \* one record of control state per thread
    pc,                 \* "idle", "done", or the label the thread is under
    step,               \* index of the next statement under that label
    op,                 \* function being executed
    arg,                \* its arguments [a, b]
    cnt,                \* loop counter i of the ec_wait_* call in progress
    ret,                \* local ret; after return, the value returned
    out,                \* byte behind the caller's output pointer
    loc,                \* locals: LSB, MSB, pin_tmp, device_id, loop index i
    \* the embedded controller
    ecCmd,              \* table command the EC is serving, 0 after any other command
    ecSel,              \* table item selected by EC_TBL_WRITE_ITEM
    ecTbl,              \* the EC's own table: item -> [def, pin, dev]
    ecBytes,            \* bytes the EC may answer to the non-table commands
    ecRam,              \* HW RAM of an EC that keeps one: address -> byte
    ecAddr,             \* HW RAM address the EC has latched, none: 0 - 1
    max_timeout_count,  \* retry budget of a wait step
    \* observation of the port traffic
    acc,                \* last port access of a call in progress; of a write or data read,
                        \* also the access before it
    segs,               \* call ids in the order their port accesses appear, runs merged
    ncalls,             \* logical-operation calls started so far
    cid,                \* id of the call each thread is in
    npoll,              \* status reads made by the wait step in progress
    sawReady,           \* the wait step in progress has already observed its bit
    wres,               \* outcome of the wait step that just ended
    ended,              \* "timeout" / "ff" once the call met a timed-out wait / a 0xff
                        \* readback of an index or item, else "no"
    late,               \* a port access was made after that: which of the two it followed
    failed,             \* some call has returned through its error or bad label
    wtrace,             \* port writes and data reads of the call (of the slot, in discovery)
    ptrace,             \* the same with the wait steps that succeeded in between
    ramw,               \* HW RAM address -> byte of the last write_hw_ram that succeeded
    selects             \* items discovery has selected

ctxVars == <<lock, dym_tbl, probe>>
devVars == <<sub_dev_mask, probe_ret, props, hwmon>>
drvVars == <<wdt, frame, nops>>
thrVars == <<pc, step, op, arg, cnt, ret, out, loc>>
ecVars == <<ecCmd, ecSel, ecTbl, ecBytes, max_timeout_count, ecRam, ecAddr>>
obsVars == <<acc, segs, ncalls, cid, npoll, sawReady, wres, ended, late, failed, wtrace, selects,
            ptrace, ramw>>
vars == <<ctxVars, devVars, drvVars, thrVars, ecVars, obsVars>>

NoAccess == [c |-> 0 - 1, kind |-> "none", port |-> 0, val |-> 0]
\* what is kept of the access before a port write or data read
Before(a) == [c |-> a.c, kind |-> a.kind, val |-> a.val]
NoWait == [f |-> "none", res |-> 0, polls |-> 0, early |-> FALSE, last |-> 0]
\* no sub-device driver function in progress; value is the caller's local byte,
\* not initialized: 0 - 1
NoFrame == [fn |-> "none", at |-> "none", calls |-> <<>>, rets |-> <<>>, value |-> 0 - 1,
            ret |-> 0, val |-> <<0, 0>>]
\* ec_wdt_data before adv_ec_wdt_probe; last is the last of EC_WDT_START and
\* EC_WDT_STOP the driver has written to the command port, 0 for none
NoWdt == [state |-> "none", is_enable |-> 0, lock_ioctl |-> NoOwner, active |-> FALSE,
          timeout |-> 0, current_timeout |-> 0, last |-> 0]
WdtFunctions == {"ec_wdt_start", "ec_wdt_stop", "ec_wdt_ping", "ec_wdt_set_timeout",
                 "advwdt_notify_sys"}
NoLocals == [LSB |-> 0, MSB |-> 0, pin_tmp |-> 0, device_id |-> 0, chk |-> 0, i |-> 0]
Labels == {"main", "error", "bad", "pass", "skip"}
StatusVals == 0..3

Code(t) == Function(op[t], arg[t].a, arg[t].b, loc[t].i)
Running(t) == pc[t] \in Labels
Stmt(t) == Code(t)[pc[t]][step[t]]
At(t, kind) == Running(t) /\ Stmt(t).k = kind

\* bookkeeping of a port access made by thread t
Access(t, kind, port, val) ==
    /\ acc' = IF kind = "status"
              THEN [c |-> cid[t], kind |-> kind, port |-> port, val |-> val]
              ELSE [c |-> cid[t], kind |-> kind, port |-> port, val |-> val, pre |-> Before(acc)]
    /\ segs' = IF segs # <<>> /\ segs[Len(segs)] = cid[t] THEN segs ELSE Append(segs, cid[t])
    /\ late' = [late EXCEPT ![t] = IF late[t] = "no" THEN ended[t] ELSE late[t]]

\* bookkeeping of a step that touches no port
Quiet(t) ==
    /\ UNCHANGED <<acc, segs, late>>
    /\ wres' = [wres EXCEPT ![t] = NoWait]

(* ------------------------------------------------------------------ *)
(* The EC as seen through the two ports                                 *)
(* ------------------------------------------------------------------ *)
\* "If item is defined, EC will return item number. If table item is not
\*  defined, EC will return 0xFF."  GET_PIN / GET_DEVID answer for the selected item.
\* An EC that keeps HW RAM (ecRam is not empty) answers EC_HW_RAM_READ and an
\* address with the byte stored there.
ec_data_out ==
    CASE ecCmd = EC_TBL_WRITE_ITEM -> {IF ecTbl[ecSel].def THEN ecSel ELSE UNDEFINED_BYTE}
      [] ecCmd = EC_TBL_GET_PIN    -> {ecTbl[ecSel].pin}
      [] ecCmd = EC_TBL_GET_DEVID  -> {ecTbl[ecSel].dev}
      [] ecCmd = EC_HW_RAM_READ /\ ecAddr \in DOMAIN ecRam -> {ecRam[ecAddr]}
      [] OTHER                     -> ecBytes

\* the commands the EC model keeps track of
ec_commands ==
    {EC_TBL_WRITE_ITEM, EC_TBL_GET_PIN, EC_TBL_GET_DEVID}
        \cup (IF DOMAIN ecRam = {} THEN {} ELSE {EC_HW_RAM_READ, EC_HW_RAM_WRITE})

ec_outb(v, port) ==
    /\ ecCmd' = IF port # EC_COMMAND_PORT THEN ecCmd
                ELSE IF v \in ec_commands THEN v
                ELSE 0
    \* HW RAM: the first data byte after the command is the address, the second
    \* data byte after EC_HW_RAM_WRITE is stored at that address
    /\ ecAddr' = IF port = EC_COMMAND_PORT THEN 0 - 1
                 ELSE IF ecCmd \in {EC_HW_RAM_READ, EC_HW_RAM_WRITE} /\ ecAddr = 0 - 1 THEN v
                 ELSE ecAddr
    /\ ecRam' = IF port = EC_STATUS_PORT /\ ecCmd = EC_HW_RAM_WRITE /\ ecAddr \in DOMAIN ecRam
                THEN [ecRam EXCEPT ![ecAddr] = v]
                ELSE ecRam
    /\ ecSel' = IF port = EC_STATUS_PORT /\ ecCmd = EC_TBL_WRITE_ITEM /\ v < EC_MAX_TBL_NUM
                THEN v ELSE ecSel
    /\ UNCHANGED <<ecTbl, ecBytes, max_timeout_count>>

(* ------------------------------------------------------------------ *)
(* Steps of a thread                                                    *)
(* ------------------------------------------------------------------ *)
\* the poll of a wait step observes the bit it waits for (IBF clear / OBF set)
Awaited(f, status) ==
    IF f = "ec_wait_write" THEN status \in {0, 1} ELSE status \in {1, 3}

if_ret_ignored(r) == FALSE
\* if (ret) goto error;
if_ret_goto_error(r) == r # 0

is_0x00(v) == v = 0
\* if (inb(EC_STATUS_PORT) == 0xff)
is_0xff(v) == v = UNDEFINED_BYTE

\* the device properties before adv_ec_parse_prop has read them
NoProps == [nb_ret |-> 0, sub_ret |-> 0, sub_dev |-> <<>>, read |-> FALSE]
\* properties as the firmware gives them: the result of reading advantech,sub-dev-nb,
\* the result of reading advantech,sub-dev, and the values of advantech,sub-dev
Props(nb_ret, sub_ret, sub_dev) ==
    [nb_ret |-> nb_ret, sub_ret |-> sub_ret, sub_dev |-> sub_dev, read |-> TRUE]
GoodProps == Props(0, 0, <<ADVEC_SUBDEV_HWMON, ADVEC_SUBDEV_WDT>>)

BIT(n) == Shl(1, n)

\* for (i = 0; i < nb; i++) switch (sub_dev[i]) { case 0..5: mask |= BIT(sub_dev[i]);
\*                                                default: dev_err(...); }
RECURSIVE parse_prop_mask(_, _, _)
parse_prop_mask(sub_dev, i, mask) ==
    IF i > Len(sub_dev) THEN mask
    ELSE parse_prop_mask(sub_dev, i + 1,
                         IF sub_dev[i] \in 0..(ADVEC_SUBDEV_MAX - 1)
                         THEN BitOr(mask, BIT(sub_dev[i]))
                         ELSE mask)

\* adv_ec_parse_prop: its return value and the sub_dev_mask it leaves
adv_ec_parse_prop(p) ==
    IF p.nb_ret < 0 THEN [ret |-> p.nb_ret, mask |-> 0]
    ELSE IF p.sub_ret < 0 THEN [ret |-> p.sub_ret, mask |-> 0]
    ELSE [ret |-> 0, mask |-> parse_prop_mask(p.sub_dev, 1, 0)]

\* the indices of u32 sub_dev[ADVEC_SUBDEV_MAX] that adv_ec_parse_prop accesses:
\* device_property_read_u32_array(dev, "advantech,sub-dev", sub_dev, nb) writes nb
\* elements when it succeeds, and the loop "for (i = 0; i < nb; i++)" reads them;
\* nb is the value of advantech,sub-dev-nb, used as it was read
sub_dev_indices(p) ==
    IF p.nb_ret < 0 \/ p.sub_ret < 0 THEN {} ELSE 0..(Len(p.sub_dev) - 1)

\* What adv_ec_parse_prop leaves.  Elements written past the end of sub_dev land on
\* the rest of the stack frame: the loop may see them as they were written, or see
\* other words there and take nothing from them, or the overwritten frame makes the
\* function end with an error.
parse_prop_outcomes(p) ==
    IF sub_dev_indices(p) \subseteq 0..(ADVEC_SUBDEV_MAX - 1)
    THEN {adv_ec_parse_prop(p)}
    ELSE {adv_ec_parse_prop(p),
          [ret |-> 0, mask |-> parse_prop_mask(SubSeq(p.sub_dev, 1, ADVEC_SUBDEV_MAX), 1, 0)],
          [ret |-> 0 - EINVAL, mask |-> 0]}

if_ret_registers_anyway(r) == FALSE
\* ret = adv_ec_init_ec_data(adv_ec_data); if (ret) goto err_init_data;
if_ret_goto_err_init_data(r) == r # 0

\* ret = adv_ec_parse_prop(adv_ec_data); if (ret) goto err_prop;
if_ret_goto_err_prop(r) == r # 0

sub_devices_added_early(sd) ==
    probe # "init" /\ sd \in {ADVEC_SUBDEV_HWMON, ADVEC_SUBDEV_WDT}
\* the platform device of sub-device sd exists: adv_ec_probe has reached
\* "if (sub_dev_mask & BIT(i)) mfd_add_hotplug_devices(dev, &adv_ec_sub_cells[i], 1)"
sub_devices_added(sd) ==
    probe = "registered" /\ BitAnd(sub_dev_mask, BIT(sd)) # 0

\* a consumer calls one of the exported functions
SubDev(t) == IF t = 1 THEN ADVEC_SUBDEV_HWMON ELSE ADVEC_SUBDEV_WDT

\* thread t enters the exported function c.op(c.a, c.b); byte is what the caller's
\* output pointer points at
call_function(t, c, byte) ==
    /\ pc[t] \in {"idle", "done"}
    /\ op' = [op EXCEPT ![t] = c.op]
    /\ arg' = [arg EXCEPT ![t] = [a |-> c.a, b |-> c.b]]
    /\ pc' = [pc EXCEPT ![t] = "main"]
    /\ step' = [step EXCEPT ![t] = 1]
    /\ cnt' = [cnt EXCEPT ![t] = 0]
    /\ ret' = [ret EXCEPT ![t] = 0]
    /\ out' = [out EXCEPT ![t] = byte]
    /\ loc' = [loc EXCEPT ![t] = NoLocals]
    /\ ncalls' = ncalls + 1
    /\ cid' = [cid EXCEPT ![t] = ncalls + 1]
    /\ npoll' = [npoll EXCEPT ![t] = 0]
    /\ sawReady' = [sawReady EXCEPT ![t] = FALSE]
    /\ wres' = [wres EXCEPT ![t] = NoWait]
    /\ ended' = [ended EXCEPT ![t] = "no"]
    /\ late' = [late EXCEPT ![t] = "no"]
    /\ wtrace' = [wtrace EXCEPT ![t] = <<>>]
    /\ ptrace' = [ptrace EXCEPT ![t] = <<>>]
    /\ UNCHANGED <<ctxVars, ecVars, acc, segs, failed, selects>>

\* a sub-device driver calls one of the exported functions
call(t, calls) ==
    /\ UNCHANGED <<devVars, drvVars, ramw>>
    /\ sub_devices_added(SubDev(t))
    /\ ncalls < MaxCalls
    /\ \E c \in calls : call_function(t, c, 0)

mutex_lock(t) ==
    /\ UNCHANGED <<devVars, drvVars, ramw>>
    /\ At(t, "mutex_lock")
    /\ lock = NoOwner
    /\ lock' = t
    /\ step' = [step EXCEPT ![t] = @ + 1]
    /\ Quiet(t)
    /\ UNCHANGED <<dym_tbl, probe, pc, op, arg, cnt, ret, out, loc, ecVars,
                   ncalls, cid, npoll, sawReady, ended, failed, wtrace, ptrace, selects>>

\* one iteration of the loop of ec_wait_write / ec_wait_read: read the status
\* port, return 0 if the bit is as wanted, else udelay and i++
ec_wait_poll(t) ==
    /\ UNCHANGED <<devVars, drvVars, ramw>>
    /\ At(t, "wait")
    /\ ec_wait_loop(cnt[t], max_timeout_count)
    /\ \E status \in StatusVals :
          LET f == Stmt(t).f
              ok == IF f = "ec_wait_write" THEN ec_wait_write(status) ELSE ec_wait_read(status)
          IN  /\ Access(t, "status", EC_COMMAND_PORT, status)
              /\ IF ok
                 THEN /\ ret' = [ret EXCEPT ![t] = 0]
                      /\ step' = [step EXCEPT ![t] = @ + 1]
                      /\ cnt' = [cnt EXCEPT ![t] = 0]
                      /\ npoll' = [npoll EXCEPT ![t] = 0]
                      /\ sawReady' = [sawReady EXCEPT ![t] = FALSE]
                      /\ wres' = [wres EXCEPT ![t] =
                                    [f |-> f, res |-> 0, polls |-> npoll[t] + 1,
                                     early |-> sawReady[t], last |-> status]]
                      /\ ptrace' = [ptrace EXCEPT ![t] = Append(@, <<"wait", f>>)]
                 ELSE /\ cnt' = [cnt EXCEPT ![t] = @ + 1]
                      /\ npoll' = [npoll EXCEPT ![t] = @ + 1]
                      /\ sawReady' = [sawReady EXCEPT ![t] = @ \/ Awaited(f, status)]
                      /\ wres' = [wres EXCEPT ![t] = NoWait]
                      /\ UNCHANGED <<ret, step, ptrace>>
    /\ UNCHANGED <<ctxVars, pc, op, arg, out, loc, ecVars, ncalls, cid, ended, failed,
                   wtrace, selects>>

\* the loop of ec_wait_* ends without the bit: return -ETIMEDOUT, and the caller's
\* "if (ret) goto error"
ec_wait_timeout(t) ==
    /\ UNCHANGED <<devVars, drvVars, ramw>>
    /\ At(t, "wait")
    /\ ~ec_wait_loop(cnt[t], max_timeout_count)
    /\ ret' = [ret EXCEPT ![t] = 0 - ETIMEDOUT]
    /\ IF if_ret_goto_error(0 - ETIMEDOUT)
       THEN /\ pc' = [pc EXCEPT ![t] = "error"]
            /\ step' = [step EXCEPT ![t] = 1]
       ELSE /\ pc' = pc
            /\ step' = [step EXCEPT ![t] = @ + 1]
    /\ cnt' = [cnt EXCEPT ![t] = 0]
    /\ npoll' = [npoll EXCEPT ![t] = 0]
    /\ sawReady' = [sawReady EXCEPT ![t] = FALSE]
    /\ wres' = [wres EXCEPT ![t] =
                  [f |-> Stmt(t).f, res |-> 0 - ETIMEDOUT, polls |-> npoll[t],
                   early |-> sawReady[t], last |-> acc.val]]
    /\ ended' = [ended EXCEPT ![t] = "timeout"]
    /\ UNCHANGED <<ctxVars, op, arg, out, loc, ecVars, acc, segs, late,
                   ncalls, cid, failed, wtrace, ptrace, selects>>

outb(t) ==
    /\ UNCHANGED <<devVars, frame, nops, ramw>>
    /\ At(t, "outb")
    /\ LET v == Stmt(t).v
           port == Stmt(t).port
       IN  /\ ec_outb(v, port)
           /\ wdt' = IF port = EC_COMMAND_PORT /\ frame[t].fn \in WdtFunctions
                         /\ v \in {EC_WDT_START, EC_WDT_STOP}
                      THEN [wdt EXCEPT !.last = v] ELSE wdt
           /\ Access(t, "outb", port, v)
           /\ wtrace' = [wtrace EXCEPT ![t] = Append(@, <<"outb", port, v>>)]
           /\ ptrace' = [ptrace EXCEPT ![t] = Append(@, <<"outb", port, v>>)]
           /\ selects' = IF op[t] = "adv_get_dynamic_tab" /\ port = EC_STATUS_PORT
                          THEN selects \cup {v} ELSE selects
    /\ step' = [step EXCEPT ![t] = @ + 1]
    /\ wres' = [wres EXCEPT ![t] = NoWait]
    /\ UNCHANGED <<ctxVars, pc, op, arg, cnt, ret, out, loc, ncalls, cid, npoll,
                   sawReady, ended, failed>>

inb(t) ==
    /\ UNCHANGED <<devVars, drvVars, ramw>>
    /\ At(t, "inb")
    /\ \E v \in ec_data_out :
          LET dst == Stmt(t).dst
              ff == Stmt(t).ff
          IN  /\ Access(t, "inb", EC_STATUS_PORT, v)
              /\ wtrace' = [wtrace EXCEPT ![t] = Append(@, <<"inb", EC_STATUS_PORT, v>>)]
              /\ ptrace' = [ptrace EXCEPT ![t] = Append(@, <<"inb", EC_STATUS_PORT, v>>)]
              /\ out' = IF dst = "data" THEN [out EXCEPT ![t] = v] ELSE out
              /\ loc' = IF dst \in {"LSB", "MSB", "pin_tmp", "device_id"}
                        THEN [loc EXCEPT ![t][dst] = v] ELSE loc
              /\ ended' = IF ff # "none" /\ v = UNDEFINED_BYTE
                          THEN [ended EXCEPT ![t] = "ff"] ELSE ended
              /\ IF ff # "none" /\ is_0xff(v)
                 THEN /\ pc' = [pc EXCEPT ![t] = ff]
                      /\ step' = [step EXCEPT ![t] = 1]
                 ELSE /\ step' = [step EXCEPT ![t] = @ + 1]
                      /\ pc' = pc
    /\ wres' = [wres EXCEPT ![t] = NoWait]
    /\ UNCHANGED <<ctxVars, op, arg, cnt, ret, ecVars, ncalls, cid, npoll, sawReady,
                   failed, selects>>

\* the value a return statement returns
RetVal(t) ==
    LET what == Stmt(t).what
    IN  CASE what = "ret"     -> ret[t]
          [] what = "zero"    -> 0
          [] what = "minus1"  -> 0 - 1
          [] what = "ret_val" -> ad_ret_val(loc[t].LSB, loc[t].MSB, Stmt(t).multi)

\* mutex_unlock(&adv_ec_data->lock); return <value>;  the frame of the call goes away
func_return(t) ==
    /\ UNCHANGED <<devVars, wdt, nops>>
    /\ At(t, "return")
    \* the value returned and the byte behind the pointer go to the sub-device
    \* driver function that made the call
    /\ frame' = IF frame[t].fn = "none" THEN frame
                ELSE [frame EXCEPT ![t].rets = Append(@, RetVal(t)), ![t].value = out[t]]
    /\ lock' = IF Stmt(t).unlock THEN NoOwner ELSE lock
    \* the value goes to the caller; of the callers only adv_ec_probe is part of this
    \* model, the consumers' frames are gone with the call
    /\ ret' = [ret EXCEPT ![t] = IF t = ProbeThread THEN RetVal(t) ELSE 0]
    /\ pc' = [pc EXCEPT ![t] = "done"]
    /\ step' = [step EXCEPT ![t] = 1]
    /\ op' = [op EXCEPT ![t] = "none"]
    /\ arg' = [arg EXCEPT ![t] = [a |-> 0, b |-> 0]]
    /\ loc' = [loc EXCEPT ![t] = NoLocals]
    /\ out' = [out EXCEPT ![t] = 0]
    /\ cid' = [cid EXCEPT ![t] = 0]
    /\ wtrace' = [wtrace EXCEPT ![t] = <<>>]
    /\ ptrace' = [ptrace EXCEPT ![t] = <<>>]
    /\ ramw' = IF op[t] = "write_hw_ram" /\ pc[t] = "main" /\ arg[t].a \in DOMAIN ramw
               THEN [ramw EXCEPT ![arg[t].a] = arg[t].b] ELSE ramw
    /\ ended' = [ended EXCEPT ![t] = "no"]
    /\ failed' = (failed \/ pc[t] \in {"error", "bad"})
    \* the observation keeps the last access of a call in progress only
    /\ acc' = IF acc.c = cid[t] THEN NoAccess ELSE acc
    /\ wres' = [wres EXCEPT ![t] = NoWait]
    /\ UNCHANGED <<segs, late>>
    /\ UNCHANGED <<dym_tbl, probe, cnt, ecVars, ncalls, npoll, sawReady, selects>>

(* ------------------------------------------------------------------ *)
(* Table discovery and probe                                            *)
(* ------------------------------------------------------------------ *)
UndefinedEntry == [device_id |-> UNDEFINED_BYTE, hw_pin_num |-> UNDEFINED_BYTE]
Slots == 0..(EC_MAX_TBL_NUM - 1)

\* for (i = 0; i < EC_MAX_TBL_NUM; i++) dym_tbl[i] = {0xff, 0xff};  then i = 0
tbl_init(t) ==
    /\ UNCHANGED <<devVars, drvVars, ramw>>
    /\ At(t, "tbl_init")
    /\ dym_tbl' = [i \in Slots |-> UndefinedEntry]
    /\ loc' = [loc EXCEPT ![t].i = 0]
    /\ step' = [step EXCEPT ![t] = @ + 1]
    /\ Quiet(t)
    /\ UNCHANGED <<lock, probe, pc, op, arg, cnt, ret, out, ecVars,
                   ncalls, cid, npoll, sawReady, ended, failed, wtrace, ptrace, selects>>

\* the slot index an entry is stored at
tbl_store_index(i) == i

\* dym_tbl[i].device_id = device_id; dym_tbl[i].hw_pin_num = pin_tmp;
tbl_store(t) ==
    /\ UNCHANGED <<devVars, drvVars, ramw>>
    /\ At(t, "tbl_store")
    /\ dym_tbl' = [dym_tbl EXCEPT ![tbl_store_index(loc[t].i)] =
                     [device_id |-> loc[t].device_id, hw_pin_num |-> loc[t].pin_tmp]]
    /\ step' = [step EXCEPT ![t] = @ + 1]
    /\ Quiet(t)
    /\ UNCHANGED <<lock, probe, pc, op, arg, cnt, ret, out, loc, ecVars,
                   ncalls, cid, npoll, sawReady, ended, failed, wtrace, ptrace, selects>>

\* i++; i < EC_MAX_TBL_NUM ? next slot : fall through to pass
loop_next(t) ==
    /\ UNCHANGED <<devVars, drvVars, ramw>>
    /\ At(t, "loop")
    /\ loc' = [loc EXCEPT ![t].i = @ + 1]
    /\ IF loc[t].i + 1 < EC_MAX_TBL_NUM
       THEN /\ step' = [step EXCEPT ![t] = Stmt(t).top]
            /\ pc' = [pc EXCEPT ![t] = "main"]
       ELSE /\ step' = [step EXCEPT ![t] = 1]
            /\ pc' = [pc EXCEPT ![t] = "pass"]
    /\ wtrace' = [wtrace EXCEPT ![t] = <<>>]
    /\ ptrace' = [ptrace EXCEPT ![t] = <<>>]
    /\ Quiet(t)
    /\ UNCHANGED <<ctxVars, op, arg, cnt, ret, out, ecVars,
                   ncalls, cid, npoll, sawReady, ended, failed, selects>>

\* adv_ec_probe -> adv_ec_init_ec_data: mutex_init, the table is allocated zeroed,
\* adv_get_dynamic_tab is called
adv_ec_probe(t) ==
    /\ UNCHANGED <<devVars, drvVars, ramw>>
    /\ t = ProbeThread
    /\ probe = "init"
    /\ probe' = "init_ec_data"
    /\ lock' = NoOwner
    /\ dym_tbl' = [i \in Slots |-> [device_id |-> 0, hw_pin_num |-> 0]]
    /\ op' = [op EXCEPT ![t] = "adv_get_dynamic_tab"]
    /\ pc' = [pc EXCEPT ![t] = "main"]
    /\ step' = [step EXCEPT ![t] = 1]
    /\ Quiet(t)
    /\ UNCHANGED <<arg, cnt, ret, out, loc, ecVars,
                   ncalls, cid, npoll, sawReady, ended, failed, wtrace, ptrace, selects>>

\* adv_ec_probe after adv_ec_init_ec_data has returned: the error check, then
\* adv_ec_parse_prop and its error check, then the sub-devices are added
adv_ec_probe_end(t, inputs) ==
    /\ UNCHANGED <<hwmon, drvVars, ramw>>
    /\ t = ProbeThread
    /\ probe = "init_ec_data"
    /\ pc[t] = "done"
    /\ IF if_ret_goto_err_init_data(ret[t])
       THEN /\ probe' = "failed"
            /\ probe_ret' = ret[t]
            /\ UNCHANGED <<props, sub_dev_mask>>
       ELSE \E p \in inputs :
               \E r \in parse_prop_outcomes(p) :
                   /\ props' = p
                   /\ sub_dev_mask' = r.mask
                   /\ probe_ret' = IF if_ret_goto_err_prop(r.ret) THEN r.ret ELSE 0
                   /\ probe' = IF if_ret_goto_err_prop(r.ret) THEN "failed" ELSE "registered"
    /\ pc' = [pc EXCEPT ![t] = "idle"]
    /\ Quiet(t)
    /\ UNCHANGED <<lock, dym_tbl, step, op, arg, cnt, ret, out, loc, ecVars,
                   ncalls, cid, npoll, sawReady, ended, failed, wtrace, ptrace, selects>>

\* ec_hwmon_data before adv_ec_hwmon_probe: no profile (NULL is 0 - 1), no hwmon device
\* pin_tbl is zeroed by devm_kzalloc: <<pin, multiplier>> per input
NoPins == [vbat |-> <<0, 0>>, v5 |-> <<0, 0>>, v12 |-> <<0, 0>>, vcore |-> <<0, 0>>,
           vdc |-> <<0, 0>>, ec_current |-> <<0, 0>>]
NoHwmon == [state |-> "none", prop_ret |-> 0, ret |-> 0, index |-> 0, profile |-> 0 - 1,
            hwmon_dev |-> FALSE, pin_tbl |-> NoPins]

\* the for loop of adv_ec_init_hwmon_profile for one input: the last entry of the
\* table whose device id is x1, x2 or x10 gives the pin and the multiplier 1, 2 or 10
pin_of(tbl, x1, x2, x10) ==
    LET found == {i \in Slots : tbl[i].device_id \in {x1, x2, x10}}
    IN  IF found = {} THEN <<0, 0>>
        ELSE LET i == CHOOSE h \in found : \A j \in found : j <= h
             IN  << tbl[i].hw_pin_num,
                    IF tbl[i].device_id = x1 THEN 1
                    ELSE IF tbl[i].device_id = x2 THEN 2 ELSE 10 >>

\* the same for an input with two device ids per multiplier (5VS0 and 5VS5, VCOREA
\* and VCOREB share their case labels)
pin_of_two(tbl, a, b) ==
    LET found == {i \in Slots : tbl[i].device_id \in {a[1], a[2], a[3], b[1], b[2], b[3]}}
    IN  IF found = {} THEN <<0, 0>>
        ELSE LET i == CHOOSE h \in found : \A j \in found : j <= h
                 id == tbl[i].device_id
             IN  << tbl[i].hw_pin_num,
                    IF id \in {a[1], b[1]} THEN 1
                    ELSE IF id \in {a[2], b[2]} THEN 2 ELSE 10 >>

\* case EC_DID_CURRENT: the multiplier is 1
pin_of_current(tbl) ==
    LET found == {i \in Slots : tbl[i].device_id = EC_DID_CURRENT}
    IN  IF found = {} THEN <<0, 0>>
        ELSE << tbl[CHOOSE h \in found : \A j \in found : j <= h].hw_pin_num, 1 >>

ec_hw_pin_table(tbl) ==
    [vbat |-> pin_of(tbl, EC_DID_CMOSBAT, EC_DID_CMOSBAT_X2, EC_DID_CMOSBAT_X10),
     v5   |-> pin_of_two(tbl, <<EC_DID_5VS0, EC_DID_5VS0_X2, EC_DID_5VS0_X10>>,
                              <<EC_DID_5VS5, EC_DID_5VS5_X2, EC_DID_5VS5_X10>>),
     v12  |-> pin_of(tbl, EC_DID_12VS0, EC_DID_12VS0_X2, EC_DID_12VS0_X10),
     vcore |-> pin_of_two(tbl, <<EC_DID_VCOREA, EC_DID_VCOREA_X2, EC_DID_VCOREA_X10>>,
                               <<EC_DID_VCOREB, EC_DID_VCOREB_X2, EC_DID_VCOREB_X10>>),
     vdc  |-> pin_of(tbl, EC_DID_DC, EC_DID_DC_X2, EC_DID_DC_X10),
     ec_current |-> pin_of_current(tbl)]

\* if (profile >= ARRAY_SIZE(advec_profile)) return;
\* lmsensor_data->profile = &advec_profile[profile];
adv_ec_init_hwmon_profile(profile, old) ==
    IF profile >= ADVEC_PROFILE_SIZE THEN old ELSE profile

profile_in_binding(profile) == profile <= ADVEC_PROFILE_SIZE + 1
\* if (!(profile < ARRAY_SIZE(advec_profile))) return -EINVAL;
profile_supported(profile) == profile < ADVEC_PROFILE_SIZE

\* adv_ec_hwmon_probe: reads advantech,hwmon-profile, checks it, attaches the
\* profile and registers the hwmon device.  It accesses no port.
adv_ec_hwmon_probe(inputs) ==
    /\ sub_devices_added(ADVEC_SUBDEV_HWMON)
    /\ hwmon.state = "none"
    /\ \E hp \in inputs :
          hwmon' =
             IF hp.ret < 0
             THEN [NoHwmon EXCEPT !.state = "probed", !.prop_ret = hp.ret, !.ret = hp.ret]
             ELSE IF ~profile_supported(hp.profile)
             THEN [NoHwmon EXCEPT !.state = "probed", !.ret = 0 - EINVAL, !.index = hp.profile]
             ELSE [state |-> "probed", prop_ret |-> 0, ret |-> 0, index |-> hp.profile,
                   profile |-> adv_ec_init_hwmon_profile(hp.profile, NoHwmon.profile),
                   hwmon_dev |-> TRUE, pin_tbl |-> ec_hw_pin_table(dym_tbl)]
    /\ UNCHANGED <<ctxVars, sub_dev_mask, probe_ret, props, drvVars, thrVars, ecVars, obsVars>>

(* ------------------------------------------------------------------ *)
(* Functions of the sub-device drivers                                  *)
(* ------------------------------------------------------------------ *)
NotInFrame(t) == frame[t].at \in {"none", "returned"}

\* thread t enters the driver function fn, which calls c first
enter(t, fn, c) ==
    /\ NotInFrame(t)
    /\ nops < MaxCalls
    /\ nops' = nops + 1
    /\ frame' = [frame EXCEPT ![t] = [NoFrame EXCEPT !.fn = fn, !.at = "called", !.calls = <<c>>]]
    /\ call_function(t, c, NoFrame.value)
    /\ UNCHANGED <<devVars, ramw>>

\* the function goes on with the call c
again(t, c) ==
    /\ frame' = [frame EXCEPT ![t].calls = Append(@, c)]
    /\ call_function(t, c, frame[t].value)
    /\ UNCHANGED <<devVars, ramw, nops>>

\* the function returns r, with v behind its val pointer
leave(t, r, v) ==
    /\ frame' = [frame EXCEPT ![t].at = "returned", ![t].ret = r, ![t].val = v]
    /\ UNCHANGED <<ctxVars, devVars, thrVars, ecVars, obsVars, nops>>

\* the call thread t made inside fn has returned
Returned(t, fn) == frame[t].fn = fn /\ frame[t].at = "called" /\ pc[t] = "done"
LastRet(t) == frame[t].rets[Len(frame[t].rets)]
AdCall(pin) == [op |-> "read_ad_value", a |-> pin[1], b |-> pin[2]]

\* advec_profile[].resolution, the same in the four profiles; r1 and r2 are
\* overridden by it and offset is 0
resolution == 2929

\* temp * profile->resolution / 1000 / 1000 for temp in 0..26086500, computed in
\* two halves to stay within 32 bits
scaled(temp) ==
    ((temp \div 1000) * resolution + ((temp % 1000) * resolution) \div 1000) \div 1000

\* A value of type long is written <<e6, u>> for e6 * 10^6 + u, unsigned long
\* being 64 bits wide.
\* get_ec_in_v12_input: int temp; voltage = temp * resolution / 1000 / 1000;
\* *val = 10 * voltage.  A negative temp is converted to 2^64 + temp, and
\* 2^64 = 18446744 * 10^12 + 73709 * 10^6 + 551616.
in_v12_val(temp) ==
    IF temp >= 0
    THEN LET v == 10 * scaled(temp) IN <<v \div 1000000, v % 1000000>>
    ELSE LET k == (551616 + temp * resolution) \div 1000000
             u == 10 * (73709 + k)
         IN  <<184467440 + u \div 1000000, u % 1000000>>

\* get_ec_in_vbat_input: unsigned int temp, so a negative result of read_ad_value
\* is 2^32 + temp, and 2^32 * 2929 = 12579959 * 10^6 + 209984.
in_vbat_val(temp) ==
    IF temp >= 0
    THEN LET v == 10 * scaled(temp) IN <<v \div 1000000, v % 1000000>>
    ELSE LET v == 10 * (12579959 + (209984 + temp * resolution) \div 1000000)
         IN  <<v \div 1000000, v % 1000000>>

\* what the local "unsigned char value" of get_ec_cpu_temp holds when
\* read_acpi_value did not assign it: any byte (three of them here)
UninitializedBytes == {0, 1, UNDEFINED_BYTE}

v12_fallback_on_error(temp) == temp < 0
\* if (temp == -1)
v12_fallback(temp) == temp = 0 - 1

get_ec_in_vbat_input(t) ==
    /\ hwmon.hwmon_dev
    /\ wdt' = wdt
    /\ IF NotInFrame(t)
       THEN enter(t, "get_ec_in_vbat_input", AdCall(hwmon.pin_tbl.vbat))
       ELSE /\ Returned(t, "get_ec_in_vbat_input")
            /\ leave(t, 0, in_vbat_val(LastRet(t)))

get_ec_in_v12_input(t) ==
    /\ hwmon.hwmon_dev
    /\ wdt' = wdt
    /\ IF NotInFrame(t)
       THEN enter(t, "get_ec_in_v12_input", AdCall(hwmon.pin_tbl.v12))
       ELSE /\ Returned(t, "get_ec_in_v12_input")
            /\ IF Len(frame[t].calls) = 1 /\ v12_fallback(LastRet(t))
               THEN again(t, AdCall(hwmon.pin_tbl.vdc))
               ELSE leave(t, 0, in_v12_val(LastRet(t)))

\* read_acpi_value(adv_ec_data, EC_ACPI_THERMAL1_REMOTE_TEMP, &value); *val = 1000 * value;
get_ec_cpu_temp(t) ==
    /\ hwmon.hwmon_dev
    /\ wdt' = wdt
    /\ IF NotInFrame(t)
       THEN enter(t, "get_ec_cpu_temp",
                  [op |-> "read_acpi_value", a |-> EC_ACPI_THERMAL1_REMOTE_TEMP, b |-> 0])
       ELSE /\ Returned(t, "get_ec_cpu_temp")
            /\ \E value \in IF frame[t].value = NoFrame.value THEN UninitializedBytes
                            ELSE {frame[t].value} :
                  leave(t, 0, <<0, 1000 * value>>)

\* get_ec_in_vcore_input: int temp, unsigned int voltage.  A negative temp gives
\* 18446744073709 + k in unsigned long, which is 4154504685 + k in 32 bits, and
\* 10 * voltage is 2890341186 + 10 * k in 32 bits.
in_vcore_val(temp) ==
    IF temp >= 0
    THEN LET v == 10 * scaled(temp) IN <<v \div 1000000, v % 1000000>>
    ELSE LET k == (551616 + temp * resolution) \div 1000000
         IN  <<2890, 341186 + 10 * k>>

\* get_ec_current1_input: int temp = temp * resolution / 1000 / 1000.  A negative
\* temp gives 4154504685 + k converted to int, which is k - 140462611, and
\* 10 * temp is stored as it is.
in_current_val(temp) ==
    LET v == IF temp >= 0 THEN 10 * scaled(temp)
             ELSE 10 * ((551616 + temp * resolution) \div 1000000 - 140462611)
    IN  <<v \div 1000000, v % 1000000>>

\* unsigned int temp, as in get_ec_in_vbat_input
get_ec_in_v5_input(t) ==
    /\ hwmon.hwmon_dev
    /\ wdt' = wdt
    /\ IF NotInFrame(t)
       THEN enter(t, "get_ec_in_v5_input", AdCall(hwmon.pin_tbl.v5))
       ELSE /\ Returned(t, "get_ec_in_v5_input")
            /\ leave(t, 0, in_vbat_val(LastRet(t)))

get_ec_in_vcore_input(t) ==
    /\ hwmon.hwmon_dev
    /\ wdt' = wdt
    /\ IF NotInFrame(t)
       THEN enter(t, "get_ec_in_vcore_input", AdCall(hwmon.pin_tbl.vcore))
       ELSE /\ Returned(t, "get_ec_in_vcore_input")
            /\ leave(t, 0, in_vcore_val(LastRet(t)))

get_ec_current1_input(t) ==
    /\ hwmon.hwmon_dev
    /\ wdt' = wdt
    /\ IF NotInFrame(t)
       THEN enter(t, "get_ec_current1_input", AdCall(hwmon.pin_tbl.ec_current))
       ELSE /\ Returned(t, "get_ec_current1_input")
            /\ leave(t, 0, in_current_val(LastRet(t)))

\* read_acpi_value(adv_ec_data, EC_ACPI_THERMAL1_LOCAL_TEMP, &value); *val = 1000 * value;
get_ec_sys_temp(t) ==
    /\ hwmon.hwmon_dev
    /\ wdt' = wdt
    /\ IF NotInFrame(t)
       THEN enter(t, "get_ec_sys_temp",
                  [op |-> "read_acpi_value", a |-> EC_ACPI_THERMAL1_LOCAL_TEMP, b |-> 0])
       ELSE /\ Returned(t, "get_ec_sys_temp")
            /\ \E value \in IF frame[t].value = NoFrame.value THEN UninitializedBytes
                            ELSE {frame[t].value} :
                  leave(t, 0, <<0, 1000 * value>>)

(* ------------------------------------------------------------------ *)
(* The watchdog driver                                                  *)
(* ------------------------------------------------------------------ *)
EC_WDT_MIN_TIMEOUT == 1
\* the timeouts the watchdog core passes on: within min_timeout..max_timeout
WdtTimeouts == {EC_WDT_MIN_TIMEOUT, EC_WDT_DEFAULT_TIMEOUT}

\* one second more accepted
advwdt_set_heartbeat_wide(t) == IF t < 1 \/ t > 6554 THEN 0 - EINVAL ELSE t * 10

\* if (t < 1 || t > 6553) return -EINVAL; return (t * 10);
\* (t is the int timeout converted to unsigned long: a negative timeout is above 6553)
advwdt_set_heartbeat(t) == IF t < 1 \/ t > 6553 THEN 0 - EINVAL ELSE t * 10

\* set_delay(adv_ec_data, (unsigned short)(timeout_in_ms - 1)): the two bytes written
unsigned_short(x) == x % 65536
delay_low(timeout_in_ms) == BitAnd(unsigned_short(timeout_in_ms - 1), 255)
delay_high(timeout_in_ms) == BitAnd(unsigned_short(timeout_in_ms - 1), 65280) \div 256

HwRamWrite(addr, data) == [op |-> "write_hw_ram", a |-> addr, b |-> data]
HwRamCommand(cmd) == [op |-> "write_hwram_command", a |-> cmd, b |-> 0]

\* the driver function fn returns r without calling the core driver
skip(t, fn, r) ==
    /\ NotInFrame(t)
    /\ pc[t] \in {"idle", "done"}
    /\ nops < MaxCalls
    /\ nops' = nops + 1
    /\ frame' = [frame EXCEPT ![t] = [NoFrame EXCEPT !.fn = fn, !.at = "returned", !.ret = r]]
    /\ UNCHANGED <<ctxVars, devVars, thrVars, ecVars, obsVars>>

\* adv_ec_wdt_probe: mutex_init(&lock_ioctl), the default timeout, is_enable = 0,
\* the reboot notifier and the watchdog device registered.  It accesses no port.
adv_ec_wdt_probe ==
    /\ sub_devices_added(ADVEC_SUBDEV_WDT)
    /\ wdt.state = "none"
    /\ wdt' = [NoWdt EXCEPT !.state = "probed", !.timeout = EC_WDT_DEFAULT_TIMEOUT,
                            !.current_timeout = EC_WDT_DEFAULT_TIMEOUT]
    /\ UNCHANGED <<ctxVars, devVars, frame, nops, thrVars, ecVars, obsVars>>

\* ec_wdt_start up to the first write of set_delay, with wdd->timeout = timeout:
\* mutex_lock(&lock_ioctl) waits until lock_ioctl is free
\* if (timeout_in_ms < 0) { mutex_unlock(&lock_ioctl); return timeout_in_ms; }
ec_wdt_start_enter(t, fn, timeout) ==
    /\ wdt.lock_ioctl = NoOwner
    /\ LET timeout_in_ms == advwdt_set_heartbeat(timeout)
       IN  IF timeout_in_ms < 0
           THEN /\ skip(t, fn, timeout_in_ms)
                /\ wdt' = [wdt EXCEPT !.timeout = timeout]
           ELSE /\ enter(t, fn, HwRamWrite(EC_RESET_DELAY_TIME_L, delay_low(timeout_in_ms)))
                /\ wdt' = [wdt EXCEPT !.lock_ioctl = t, !.timeout = timeout]

\* START written before STOP
ec_wdt_start_step_start_first(t, fn) ==
    /\ Returned(t, fn)
    /\ LET n == Len(frame[t].calls)
           timeout_in_ms == advwdt_set_heartbeat(wdt.timeout)
           unlocked == [wdt EXCEPT !.lock_ioctl = NoOwner]
       IN  CASE n = 1 ->
                  IF LastRet(t) # 0
                  THEN leave(t, 0 - EINVAL, NoFrame.val) /\ wdt' = unlocked
                  ELSE /\ again(t, HwRamWrite(EC_RESET_DELAY_TIME_H, delay_high(timeout_in_ms)))
                       /\ wdt' = wdt
             [] n = 2 ->
                  IF LastRet(t) # 0
                  THEN leave(t, 0 - EINVAL, NoFrame.val) /\ wdt' = unlocked
                  ELSE again(t, HwRamCommand(EC_WDT_START)) /\ wdt' = wdt
             [] n = 3 -> again(t, HwRamCommand(EC_WDT_STOP)) /\ wdt' = wdt
             [] OTHER ->
                  IF LastRet(t) # 0
                  THEN leave(t, LastRet(t), NoFrame.val) /\ wdt' = unlocked
                  ELSE /\ leave(t, 0, NoFrame.val)
                       \* the watchdog core sets WDOG_ACTIVE when start has returned 0
                       /\ wdt' = [unlocked EXCEPT !.is_enable = 1,
                                                  !.current_timeout = timeout_in_ms \div 10,
                                                  !.active = TRUE]

\* the rest of ec_wdt_start, from one return of the core driver to the next call:
\* the second write of set_delay, STOP, START (the result of STOP is overwritten),
\* and is_enable = 1 when START was written
ec_wdt_start_step(t, fn) ==
    /\ Returned(t, fn)
    /\ LET n == Len(frame[t].calls)
           timeout_in_ms == advwdt_set_heartbeat(wdt.timeout)
           unlocked == [wdt EXCEPT !.lock_ioctl = NoOwner]
       IN  CASE n = 1 ->
                  IF LastRet(t) # 0
                  THEN leave(t, 0 - EINVAL, NoFrame.val) /\ wdt' = unlocked
                  ELSE /\ again(t, HwRamWrite(EC_RESET_DELAY_TIME_H, delay_high(timeout_in_ms)))
                       /\ wdt' = wdt
             [] n = 2 ->
                  IF LastRet(t) # 0
                  THEN leave(t, 0 - EINVAL, NoFrame.val) /\ wdt' = unlocked
                  ELSE again(t, HwRamCommand(EC_WDT_STOP)) /\ wdt' = wdt
             [] n = 3 -> again(t, HwRamCommand(EC_WDT_START)) /\ wdt' = wdt
             [] OTHER ->
                  IF LastRet(t) # 0
                  THEN leave(t, LastRet(t), NoFrame.val) /\ wdt' = unlocked
                  ELSE /\ leave(t, 0, NoFrame.val)
                       \* the watchdog core sets WDOG_ACTIVE when start has returned 0
                       /\ wdt' = [unlocked EXCEPT !.is_enable = 1,
                                                  !.current_timeout = timeout_in_ms \div 10,
                                                  !.active = TRUE]

ec_wdt_start(t) ==
    /\ wdt.state = "probed"
    /\ IF NotInFrame(t)
       THEN ec_wdt_start_enter(t, "ec_wdt_start", wdt.timeout)
       ELSE ec_wdt_start_step(t, "ec_wdt_start")

\* wdd->timeout = timeout; if (watchdog_active(wdd)) return ec_wdt_start(wdd); return 0;
ec_wdt_set_timeout(t, timeout) ==
    /\ wdt.state = "probed"
    /\ IF NotInFrame(t)
       THEN IF wdt.active
            THEN ec_wdt_start_enter(t, "ec_wdt_set_timeout", timeout)
            ELSE /\ skip(t, "ec_wdt_set_timeout", 0)
                 /\ wdt' = [wdt EXCEPT !.timeout = timeout]
       ELSE ec_wdt_start_step(t, "ec_wdt_set_timeout")

ec_wdt_stop_enter(t) ==
    /\ wdt.lock_ioctl = NoOwner
    /\ enter(t, "ec_wdt_stop", HwRamCommand(EC_WDT_STOP))
    /\ wdt' = [wdt EXCEPT !.lock_ioctl = t]

\* mutex_unlock(&lock_ioctl) first, then: if (ret) pr_err(...); else is_enable = 0;
ec_wdt_stop_step(t) ==
    /\ frame[t].fn = "ec_wdt_stop"
    /\ IF frame[t].at = "called"
       THEN /\ pc[t] = "done"
            /\ frame' = [frame EXCEPT ![t].at = "unlocked"]
            /\ wdt' = [wdt EXCEPT !.lock_ioctl = NoOwner]
            /\ UNCHANGED <<ctxVars, devVars, thrVars, ecVars, obsVars, nops>>
       ELSE /\ frame[t].at = "unlocked"
            /\ leave(t, LastRet(t), NoFrame.val)
            \* the watchdog core clears WDOG_ACTIVE when stop has returned 0
            /\ wdt' = IF LastRet(t) # 0 THEN wdt
                      ELSE [wdt EXCEPT !.is_enable = 0, !.active = FALSE]

ec_wdt_stop(t) ==
    /\ wdt.state = "probed"
    /\ IF NotInFrame(t) THEN ec_wdt_stop_enter(t) ELSE ec_wdt_stop_step(t)

ec_wdt_ping(t) ==
    /\ wdt.state = "probed"
    /\ IF NotInFrame(t)
       THEN /\ wdt.lock_ioctl = NoOwner
            /\ enter(t, "ec_wdt_ping", HwRamCommand(EC_WDT_RESET))
            /\ wdt' = [wdt EXCEPT !.lock_ioctl = t]
       ELSE /\ Returned(t, "ec_wdt_ping")
            /\ leave(t, IF LastRet(t) # 0 THEN 0 - EINVAL ELSE 0, NoFrame.val)
            /\ wdt' = [wdt EXCEPT !.lock_ioctl = NoOwner]

\* the reboot notifier: on SYS_DOWN and SYS_HALT it writes STOP, without lock_ioctl
ShutdownCodes == {"SYS_DOWN", "SYS_HALT", "SYS_POWER_OFF"}

advwdt_notify_sys(t, code) ==
    /\ wdt.state = "probed"
    /\ IF NotInFrame(t)
       THEN IF code \in {"SYS_DOWN", "SYS_HALT"}
            THEN enter(t, "advwdt_notify_sys", HwRamCommand(EC_WDT_STOP)) /\ wdt' = wdt
            ELSE skip(t, "advwdt_notify_sys", 0) /\ wdt' = wdt
       ELSE /\ Returned(t, "advwdt_notify_sys")
            /\ IF LastRet(t) # 0
               THEN leave(t, 0 - EINVAL, NoFrame.val) /\ wdt' = wdt
               ELSE leave(t, 0, NoFrame.val) /\ wdt' = [wdt EXCEPT !.is_enable = 0]

\* adv_ec_remove, first statement: mutex_destroy(&adv_ec_data->lock).  On a build
\* without mutex debugging this does nothing and the lock keeps working for
\* whoever uses it afterwards; with it, later users are reported and go on.
adv_ec_remove(t) ==
    /\ t = ProbeThread
    /\ probe = "registered"
    /\ probe' = "mutex_destroyed"
    /\ UNCHANGED <<lock, dym_tbl, devVars, drvVars, thrVars, ecVars, obsVars>>

\* adv_ec_remove, second statement: mfd_remove_devices(&pdev->dev) unregisters the
\* watchdog device, which was set up with watchdog_stop_on_unregister: an active
\* watchdog is stopped through ec_wdt_stop, in the thread of the removal
mfd_remove_devices(t) ==
    /\ t = ProbeThread
    /\ probe = "mutex_destroyed"
    /\ IF wdt.state = "probed" /\ wdt.active /\ frame[t].fn = "none"
       THEN ec_wdt_stop_enter(t)
       ELSE IF frame[t].fn = "ec_wdt_stop" /\ frame[t].at # "returned"
       THEN ec_wdt_stop_step(t)
       ELSE /\ \A u \in Consumers : NotInFrame(u)
            /\ probe' = "removed"
            /\ wdt' = [wdt EXCEPT !.state = "removed"]
            /\ UNCHANGED <<lock, dym_tbl, devVars, frame, nops, thrVars, ecVars, obsVars>>

(* ------------------------------------------------------------------ *)
(* The hwmon read operations                                            *)
(* ------------------------------------------------------------------ *)
\* the read handlers of the attribute templates, "NULL" where the entry has none
ec_hwmon_in_attr_template ==
    << "get_ec_in_vbat_input", "get_ec_in_v5_input", "get_ec_in_v12_input",
       "get_ec_in_vcore_input", "NULL", "NULL", "NULL", "get_ec_current1_input" >>
ec_temp_attrs_template == << "get_ec_cpu_temp", "get_ec_sys_temp" >>

\* the fifth input taken from the next template entry
hwmon_in_list_0_sequential == <<0, 1, 2, 3, 4>>
\* EC_HWMON_IN_VBAT, EC_HWMON_IN_5VSB, EC_HWMON_IN_12V, EC_HWMON_IN_VCORE, EC_HWMON_IN_CURRENT
hwmon_in_list_0 == <<0, 1, 2, 3, 7>>
\* EC_HWMON_IN_VBAT, EC_HWMON_IN_5VSB, EC_HWMON_IN_12V, EC_HWMON_IN_VCORE
hwmon_in_list_1 == <<0, 1, 2, 3>>
\* EC_TEMP_CPU
temp_list_0 == <<0>>
\* EC_TEMP_CPU, EC_TEMP_SYS
temp_list_1 == <<0, 1>>

\* the lists of advec_profile[0..3]; hwmon_in_list_cnt and temp_list_cnt are the
\* ARRAY_SIZE of the lists
advec_profile ==
    << [hwmon_in_list |-> hwmon_in_list_0, temp_list |-> temp_list_0],
       [hwmon_in_list |-> hwmon_in_list_1, temp_list |-> temp_list_0],
       [hwmon_in_list |-> hwmon_in_list_1, temp_list |-> temp_list_1],
       [hwmon_in_list |-> hwmon_in_list_1, temp_list |-> temp_list_0] >>

\* &template[index] and its read member; an index outside the array reaches no entry
attr_read(template, index) ==
    IF index + 1 \in DOMAIN template THEN template[index + 1] ELSE "outside"

\* the function returns r with v behind val, without calling the core driver
finish(t, fn, r, v) ==
    /\ NotInFrame(t)
    /\ pc[t] \in {"idle", "done"}
    /\ nops < MaxCalls
    /\ nops' = nops + 1
    /\ frame' = [frame EXCEPT ![t] = [NoFrame EXCEPT !.fn = fn, !.at = "returned",
                                                     !.ret = r, !.val = v]]
    /\ wdt' = wdt
    /\ UNCHANGED <<ctxVars, devVars, thrVars, ecVars, obsVars>>

\* a call through a pointer that is NULL or was read outside the template: the
\* thread does not come back from it
bad_call(t, what) ==
    /\ NotInFrame(t)
    /\ pc[t] \in {"idle", "done"}
    /\ nops < MaxCalls
    /\ nops' = nops + 1
    /\ frame' = [frame EXCEPT ![t] = [NoFrame EXCEPT !.fn = what, !.at = "oops"]]
    /\ wdt' = wdt
    /\ UNCHANGED <<ctxVars, devVars, thrVars, ecVars, obsVars>>

\* return ec_hwmon_attr->read(dev, val);
attr_call(t, name) ==
    CASE name = "get_ec_in_vbat_input"  -> get_ec_in_vbat_input(t)
      [] name = "get_ec_in_v5_input"    -> get_ec_in_v5_input(t)
      [] name = "get_ec_in_v12_input"   -> get_ec_in_v12_input(t)
      [] name = "get_ec_in_vcore_input" -> get_ec_in_vcore_input(t)
      [] name = "get_ec_current1_input" -> get_ec_current1_input(t)
      [] name = "get_ec_cpu_temp"       -> get_ec_cpu_temp(t)
      [] name = "get_ec_sys_temp"       -> get_ec_sys_temp(t)
      [] OTHER                          -> bad_call(t, name)

InHandlers == {"get_ec_in_vbat_input", "get_ec_in_v5_input", "get_ec_in_v12_input",
               "get_ec_in_vcore_input", "get_ec_current1_input"}
TempHandlers == {"get_ec_cpu_temp", "get_ec_sys_temp"}

\* ahc1ec0_read_in on the registered hwmon device (its profile is attached)
ahc1ec0_read_in(t, attr, channel) ==
    /\ hwmon.hwmon_dev
    /\ IF NotInFrame(t)
       THEN LET profile == advec_profile[hwmon.profile + 1]
            IN  IF attr = "hwmon_in_input" /\ Len(profile.hwmon_in_list) > channel
                THEN attr_call(t, attr_read(ec_hwmon_in_attr_template,
                                            profile.hwmon_in_list[channel + 1]))
                ELSE finish(t, "ahc1ec0_read_in", 0 - EOPNOTSUPP, NoFrame.val)
       ELSE /\ frame[t].fn \in InHandlers
            /\ attr_call(t, frame[t].fn)

\* ahc1ec0_read_temp; hwmon_temp_crit is 100000 for both temperatures
ahc1ec0_read_temp(t, attr, channel) ==
    /\ hwmon.hwmon_dev
    /\ IF NotInFrame(t)
       THEN LET profile == advec_profile[hwmon.profile + 1]
            IN  CASE attr = "hwmon_temp_input" ->
                       IF Len(profile.temp_list) > channel
                       THEN attr_call(t, attr_read(ec_temp_attrs_template,
                                                   profile.temp_list[channel + 1]))
                       ELSE finish(t, "ahc1ec0_read_temp", 0 - EOPNOTSUPP, NoFrame.val)
                  [] attr = "hwmon_temp_crit" ->
                       finish(t, "ahc1ec0_read_temp", 0, <<0, 100000>>)
                  [] OTHER -> finish(t, "ahc1ec0_read_temp", 0 - EOPNOTSUPP, NoFrame.val)
       ELSE /\ frame[t].fn \in TempHandlers
            /\ attr_call(t, frame[t].fn)

(* ------------------------------------------------------------------ *)
(* Specifications                                                       *)
(* ------------------------------------------------------------------ *)
\* the EC's table: the first MaxSlot items chosen freely among undefined, bound,
\* bound with pin 0xff and bound with device id 0xff; the rest all bound or all undefined
EcUndefined == [def |-> FALSE, pin |-> UNDEFINED_BYTE, dev |-> UNDEFINED_BYTE]
EcBound(i) == [def |-> TRUE, pin |-> 64 + i, dev |-> 80 + i]
EcNoPin(i) == [def |-> TRUE, pin |-> UNDEFINED_BYTE, dev |-> 80 + i]
EcNoDev(i) == [def |-> TRUE, pin |-> 64 + i, dev |-> UNDEFINED_BYTE]
EcKinds == {"undefined", "bound", "nopin", "nodev"}
EcEntry(kind, i) ==
    CASE kind = "undefined" -> EcUndefined
      [] kind = "bound"     -> EcBound(i)
      [] kind = "nopin"     -> EcNoPin(i)
      [] kind = "nodev"     -> EcNoDev(i)
EcTables ==
    { [i \in Slots |-> IF i < MaxSlot THEN EcEntry(k[i], i)
                       ELSE IF tail THEN EcBound(i) ELSE EcUndefined] :
        k \in [0..(MaxSlot - 1) -> EcKinds], tail \in BOOLEAN }
\* an EC with item 0 bound and nothing else, and one with no item at all
EcTablesSmall ==
    { [i \in Slots |-> IF i < n THEN EcBound(i) ELSE EcUndefined] : n \in 0..1 }

\* one call of every exported function
LogicalCalls ==
    { [op |-> "read_hw_ram",         a |-> 94, b |-> 0],
      [op |-> "write_hw_ram",        a |-> 95, b |-> 7],
      [op |-> "read_acpi_value",     a |-> 80, b |-> 0],
      [op |-> "write_acpi_value",    a |-> 80, b |-> 9],
      [op |-> "read_gpio_status",    a |-> 3,  b |-> 0],
      [op |-> "write_gpio_status",   a |-> 3,  b |-> 1],
      [op |-> "read_gpio_dir",       a |-> 4,  b |-> 0],
      [op |-> "write_gpio_dir",      a |-> 4,  b |-> 1],
      [op |-> "read_ad_value",       a |-> 5,  b |-> 0],
      [op |-> "write_hwram_command", a |-> 40, b |-> 0] }

InitThreads ==
    /\ pc = [t \in Threads |-> "idle"]
    /\ step = [t \in Threads |-> 1]
    /\ op = [t \in Threads |-> "none"]
    /\ arg = [t \in Threads |-> [a |-> 0, b |-> 0]]
    /\ cnt = [t \in Threads |-> 0]
    /\ ret = [t \in Threads |-> 0]
    /\ out = [t \in Threads |-> 0]
    /\ loc = [t \in Threads |-> NoLocals]

InitObs ==
    /\ acc = NoAccess
    /\ ncalls = 0
    /\ cid = [t \in Threads |-> 0]
    /\ npoll = [t \in Threads |-> 0]
    /\ sawReady = [t \in Threads |-> FALSE]
    /\ wres = [t \in Threads |-> NoWait]
    /\ ended = [t \in Threads |-> "no"]
    /\ late = [t \in Threads |-> "no"]
    /\ failed = FALSE
    /\ wtrace = [t \in Threads |-> <<>>]
    /\ ptrace = [t \in Threads |-> <<>>]

\* the driver is about to be probed
InitProbe ==
    /\ segs = <<>>
    /\ selects = {}
    /\ lock = NoOwner
    /\ dym_tbl = [i \in Slots |-> [device_id |-> 0, hw_pin_num |-> 0]]
    /\ probe = "init"
    /\ sub_dev_mask = 0
    /\ probe_ret = 0
    /\ props = NoProps
    /\ hwmon = NoHwmon
    /\ wdt = NoWdt
    /\ frame = [t \in Threads |-> NoFrame]
    /\ nops = 0
    /\ ecCmd = 0
    /\ ecSel = 0
    /\ ecRam = <<>>
    /\ ecAddr = 0 - 1
    /\ ramw = <<>>

\* probe, then consumers calling the logical operations concurrently, against an
\* EC that does anything with its status bits
Init ==
    /\ InitProbe
    /\ InitThreads
    /\ InitObs
    /\ ecTbl \in EcTablesSmall
    /\ ecBytes = {1, UNDEFINED_BYTE}
    /\ max_timeout_count = MaxPolls

Next ==
    \/ adv_ec_probe(ProbeThread)
    \/ adv_ec_probe_end(ProbeThread, {GoodProps})
    \/ \E t \in Consumers : call(t, LogicalCalls)
    \/ \E t \in Threads :
          \/ mutex_lock(t)
          \/ ec_wait_poll(t)
          \/ ec_wait_timeout(t)
          \/ outb(t)
          \/ inb(t)
          \/ func_return(t)
          \/ tbl_init(t)
          \/ tbl_store(t)
          \/ loop_next(t)

Spec == Init /\ [][Next]_vars

\* The same program with its scheduling: a thread inside a function keeps
\* executing (its waits are busy loops of udelay and inb), and mutex_lock is
\* granted to a waiter when the lock is free again and again.
Statement(t) ==
    \/ ec_wait_poll(t)
    \/ ec_wait_timeout(t)
    \/ outb(t)
    \/ inb(t)
    \/ func_return(t)
    \/ tbl_init(t)
    \/ tbl_store(t)
    \/ loop_next(t)

Fairness == \A t \in Threads : WF_vars(Statement(t)) /\ SF_vars(mutex_lock(t))

\* one function of each shape: three accesses, five with a readback check, seven
\* with a readback check, one
LiveCalls ==
    { [op |-> "read_hw_ram",         a |-> 94, b |-> 0],
      [op |-> "write_gpio_status",   a |-> 3,  b |-> 1],
      [op |-> "read_ad_value",       a |-> 5,  b |-> 0],
      [op |-> "write_hwram_command", a |-> 40, b |-> 0] }

InitLive ==
    /\ InitProbe
    /\ InitThreads
    /\ InitObs
    /\ ecTbl \in EcTablesSmall
    /\ ecBytes = {1, UNDEFINED_BYTE}
    /\ max_timeout_count = MaxPolls

NextLive ==
    \/ adv_ec_probe(ProbeThread)
    \/ adv_ec_probe_end(ProbeThread, {GoodProps})
    \/ \E t \in Consumers : call(t, LiveCalls)
    \/ \E t \in Threads :
          \/ mutex_lock(t)
          \/ Statement(t)

SpecLive == InitLive /\ [][NextLive]_vars /\ Fairness

\* Discovery alone, over every table of EcTables.
InitDisc ==
    /\ InitProbe
    /\ InitThreads
    /\ InitObs
    /\ ecTbl \in EcTables
    /\ ecBytes = {0}
    /\ max_timeout_count = MaxPolls

NextDisc ==
    \/ adv_ec_probe(ProbeThread)
    \/ adv_ec_probe_end(ProbeThread, {GoodProps})
    \/ mutex_lock(ProbeThread)
    \/ ec_wait_poll(ProbeThread)
    \/ ec_wait_timeout(ProbeThread)
    \/ outb(ProbeThread)
    \/ inb(ProbeThread)
    \/ func_return(ProbeThread)
    \/ tbl_init(ProbeThread)
    \/ tbl_store(ProbeThread)
    \/ loop_next(ProbeThread)

SpecDisc == InitDisc /\ [][NextDisc]_vars

\* the state a successful probe leaves against an EC that binds no item
InitRegistered ==
    /\ lock = NoOwner
    /\ dym_tbl = [i \in Slots |-> UndefinedEntry]
    /\ probe = "registered"
    /\ sub_dev_mask = adv_ec_parse_prop(GoodProps).mask
    /\ probe_ret = 0
    /\ props = GoodProps
    /\ hwmon = NoHwmon
    /\ wdt = NoWdt
    /\ frame = [t \in Threads |-> NoFrame]
    /\ nops = 0
    /\ ecCmd = EC_TBL_WRITE_ITEM
    /\ ecSel = 0
    /\ ecAddr = 0 - 1
    /\ ecTbl = [i \in Slots |-> EcUndefined]
    /\ InitThreads
    /\ InitObs
    /\ selects = {0}
    /\ segs = <<0>>

\* One consumer thread running the given calls.
NextOne(calls) ==
    \/ call(1, calls)
    \/ mutex_lock(1)
    \/ ec_wait_poll(1)
    \/ ec_wait_timeout(1)
    \/ outb(1)
    \/ inb(1)
    \/ func_return(1)

\* read_ad_value over a range of pins, multipliers and answered bytes
AdBytes == {0, 1, 3, 4, 52, 128, 252, UNDEFINED_BYTE}
AdCalls == { [op |-> "read_ad_value", a |-> p, b |-> m] : p \in {5, 6}, m \in {0, 1, 2, 10, 255} }

InitAd ==
    /\ InitRegistered
    /\ ecRam = <<>>
    /\ ramw = <<>>
    /\ ecBytes = AdBytes
    /\ max_timeout_count = 1

NextAd == NextOne(AdCalls)

SpecAd == InitAd /\ [][NextAd]_vars

\* the wait steps with the full retry budget EC_MAX_TIMEOUT_COUNT
WaitCalls ==
    { [op |-> "write_hwram_command", a |-> 40, b |-> 0],
      [op |-> "read_hw_ram",         a |-> 94, b |-> 0] }

InitWait ==
    /\ InitRegistered
    /\ ecRam = <<>>
    /\ ramw = <<>>
    /\ ecBytes = {1}
    /\ max_timeout_count = EC_MAX_TIMEOUT_COUNT

NextWait == NextOne(WaitCalls)

SpecWait == InitWait /\ [][NextWait]_vars

\* write_hw_ram and read_hw_ram against an EC that keeps HW RAM
RamAddrs == {0, 94, 255}
RamBytes == {0, 1, 128, 255}
RamCalls ==
    { [op |-> "write_hw_ram", a |-> a, b |-> v] : a \in RamAddrs, v \in RamBytes }
        \cup { [op |-> "read_hw_ram", a |-> a, b |-> 0] : a \in RamAddrs }

InitRam ==
    /\ InitRegistered
    /\ ecRam = [a \in RamAddrs |-> 7]
    /\ ramw = [a \in RamAddrs |-> 0 - 1]
    /\ ecBytes = {9}
    /\ max_timeout_count = 1

NextRam == NextOne(RamCalls)

SpecRam == InitRam /\ [][NextRam]_vars

\* Probe with every kind of device properties, the hwmon sub-device's probe with
\* every hwmon-profile, and the consumers' calls.
PropInputs ==
    { GoodProps,
      Props(0 - EINVAL, 0, <<>>),
      Props(0, 0 - EINVAL, <<>>),
      Props(0, 0, <<ADVEC_SUBDEV_HWMON, ADVEC_SUBDEV_MAX + 1>>),
      Props(0, 0, <<ADVEC_SUBDEV_MAX>>) }
HwmonProfileInputs ==
    { [ret |-> 0, profile |-> q] : q \in 0..(ADVEC_PROFILE_SIZE + 2) }
        \cup { [ret |-> 0 - EINVAL, profile |-> 0] }
\* the functions the hwmon driver (read_ad_value, read_acpi_value) and the
\* watchdog driver (write_hw_ram, write_hwram_command) call
ProbeCalls ==
    { [op |-> "read_ad_value",       a |-> 5,  b |-> 1],
      [op |-> "read_acpi_value",     a |-> 96, b |-> 0],
      [op |-> "write_hw_ram",        a |-> 94, b |-> 1],
      [op |-> "write_hwram_command", a |-> 40, b |-> 0] }

InitProbeAll ==
    /\ InitProbe
    /\ InitThreads
    /\ InitObs
    /\ ecTbl \in EcTablesSmall
    /\ ecBytes = {1}
    /\ max_timeout_count = 1

NextProbe ==
    \/ adv_ec_probe(ProbeThread)
    \/ adv_ec_probe_end(ProbeThread, PropInputs)
    \/ adv_ec_hwmon_probe(HwmonProfileInputs)
    \/ \E t \in Consumers : call(t, ProbeCalls)
    \/ \E t \in Threads :
          \/ mutex_lock(t)
          \/ ec_wait_poll(t)
          \/ ec_wait_timeout(t)
          \/ outb(t)
          \/ inb(t)
          \/ func_return(t)
          \/ tbl_init(t)
          \/ tbl_store(t)
          \/ loop_next(t)

SpecProbe == InitProbeAll /\ [][NextProbe]_vars


\* The hwmon driver over a table that binds the 12 V input to pin 5, the onboard
\* voltage (times 2) to pin 6 and the battery (times 10) to pin 7, with two
\* threads reading the sensors.
EcHwmonTable ==
    [i \in Slots |->
        CASE i = 0 -> [def |-> TRUE, pin |-> 5, dev |-> EC_DID_12VS0]
          [] i = 1 -> [def |-> TRUE, pin |-> 6, dev |-> EC_DID_DC_X2]
          [] i = 2 -> [def |-> TRUE, pin |-> 7, dev |-> EC_DID_CMOSBAT_X10]
          [] OTHER -> EcUndefined]

\* the state a successful probe leaves against that EC
InitHwmon ==
    /\ lock = NoOwner
    /\ ecTbl = EcHwmonTable
    /\ dym_tbl = [i \in Slots |-> IF ecTbl[i].def
                                  THEN [device_id |-> ecTbl[i].dev, hw_pin_num |-> ecTbl[i].pin]
                                  ELSE UndefinedEntry]
    /\ probe = "registered"
    /\ sub_dev_mask = adv_ec_parse_prop(GoodProps).mask
    /\ probe_ret = 0
    /\ props = GoodProps
    /\ hwmon = NoHwmon
    /\ wdt = NoWdt
    /\ frame = [t \in Threads |-> NoFrame]
    /\ nops = 0
    /\ ecCmd = EC_TBL_WRITE_ITEM
    /\ ecSel = 3
    /\ ecAddr = 0 - 1
    /\ ecRam = <<>>
    /\ ramw = <<>>
    /\ ecBytes = {1, UNDEFINED_BYTE}
    /\ max_timeout_count = 1
    /\ InitThreads
    /\ InitObs
    /\ selects = 0..3
    /\ segs = <<0>>

NextHwmon ==
    \/ adv_ec_hwmon_probe({[ret |-> 0, profile |-> 0]})
    \/ \E t \in Consumers :
          \/ get_ec_in_vbat_input(t)
          \/ get_ec_in_v12_input(t)
          \/ get_ec_cpu_temp(t)
          \/ mutex_lock(t)
          \/ ec_wait_poll(t)
          \/ ec_wait_timeout(t)
          \/ outb(t)
          \/ inb(t)
          \/ func_return(t)

SpecHwmon == InitHwmon /\ [][NextHwmon]_vars

\* The watchdog driver on a registered device: the watchdog core calls the
\* operations one at a time (thread 2), the reboot notifier runs in the thread
\* that shuts the system down (thread 1), and the device may be removed.
InitWdt ==
    /\ InitRegistered
    /\ ecRam = <<>>
    /\ ramw = <<>>
    /\ ecBytes = {1}
    /\ max_timeout_count = 1

NextWdt ==
    \/ adv_ec_wdt_probe
    \/ ec_wdt_start(2)
    \/ ec_wdt_stop(2)
    \/ ec_wdt_ping(2)
    \/ \E timeout \in WdtTimeouts : ec_wdt_set_timeout(2, timeout)
    \/ \E code \in ShutdownCodes : advwdt_notify_sys(1, code)
    \/ adv_ec_remove(ProbeThread)
    \/ mfd_remove_devices(ProbeThread)
    \/ \E t \in Threads :
          \/ mutex_lock(t)
          \/ ec_wait_poll(t)
          \/ ec_wait_timeout(t)
          \/ outb(t)
          \/ func_return(t)

SpecWdt == InitWdt /\ [][NextWdt]_vars

\* The hwmon device with each of the four profiles, read by one thread on every
\* channel up to one past the longest list.
Channels == 0..Len(hwmon_in_list_0)
InAttrs == {"hwmon_in_input", "hwmon_in_label"}
TempAttrs == {"hwmon_temp_input", "hwmon_temp_crit", "hwmon_temp_label"}

NextSensors ==
    \/ adv_ec_hwmon_probe({[ret |-> 0, profile |-> q] : q \in 0..(ADVEC_PROFILE_SIZE - 1)})
    \/ \E attr \in InAttrs, channel \in Channels : ahc1ec0_read_in(1, attr, channel)
    \/ \E attr \in TempAttrs, channel \in Channels : ahc1ec0_read_temp(1, attr, channel)
    \/ mutex_lock(1)
    \/ ec_wait_poll(1)
    \/ ec_wait_timeout(1)
    \/ outb(1)
    \/ inb(1)
    \/ func_return(1)

SpecSensors == InitHwmon /\ [][NextSensors]_vars

\* The probe with advantech,sub-dev-nb from 0 to 8 and as many values of
\* advantech,sub-dev.
SubDevValues == <<ADVEC_SUBDEV_HWMON, ADVEC_SUBDEV_WDT, 0, 1, 2, 4, ADVEC_SUBDEV_HWMON, 1>>
PropArrayInputs == { Props(0, 0, SubSeq(SubDevValues, 1, nb)) : nb \in 0..Len(SubDevValues) }

NextProp ==
    \/ adv_ec_probe(ProbeThread)
    \/ adv_ec_probe_end(ProbeThread, PropArrayInputs)
    \/ mutex_lock(ProbeThread)
    \/ ec_wait_poll(ProbeThread)
    \/ ec_wait_timeout(ProbeThread)
    \/ outb(ProbeThread)
    \/ inb(ProbeThread)
    \/ func_return(ProbeThread)
    \/ tbl_init(ProbeThread)
    \/ tbl_store(ProbeThread)
    \/ loop_next(ProbeThread)

SpecProp == InitProbeAll /\ [][NextProp]_vars

\* ec_wdt_start over timeouts on both sides of the limits of advwdt_set_heartbeat
\* and of the byte boundaries of the delay, set through ec_wdt_set_timeout
HeartbeatInputs == {0 - 1, 0, 1, 25, 26, 45, 6553, 6554, 6555}

NextBeat ==
    \/ adv_ec_wdt_probe
    \/ ec_wdt_start(2)
    \/ \E timeout \in HeartbeatInputs : ec_wdt_set_timeout(2, timeout)
    \/ mutex_lock(2)
    \/ ec_wait_poll(2)
    \/ ec_wait_timeout(2)
    \/ outb(2)
    \/ func_return(2)

SpecBeat == InitWdt /\ [][NextBeat]_vars

(* ------------------------------------------------------------------ *)
(* Properties                                                           *)
(* ------------------------------------------------------------------ *)
\* the thread is inside a function, past its mutex_lock
Holds(t) == Running(t) /\ (pc[t] # "main" \/ step[t] > 1)

IsPrefix(s, r) == Len(s) <= Len(r) /\ \A i \in 1..Len(s) : s[i] = r[i]
IsOutbStmt(st) == st.k = "outb"
IsOutbAccess(e) == e[1] = "outb"
\* the port writes the function body issues, in program order
Planned(t) ==
    LET sts == SelectSeq(Code(t).main, IsOutbStmt)
    IN  [j \in 1..Len(sts) |-> <<"outb", sts[j].port, sts[j].v>>]
\* the port writes the call has made
Written(t) == SelectSeq(wtrace[t], IsOutbAccess)

PinOps == {"read_gpio_status", "write_gpio_status", "read_gpio_dir", "write_gpio_dir",
           "read_ad_value"}
IndexOpcode(o) == IF o = "read_ad_value" THEN EC_AD_INDEX_WRITE ELSE EC_GPIO_INDEX_WRITE

\* C1: the port accesses of concurrent callers never interleave: in the global
\* sequence of port accesses every call's accesses form one contiguous run, so
\* the sequence is a concatenation of whole per-call traces.
C1_NoInterleaving ==
    \A i, j \in 1..Len(segs) : i < j => segs[i] # segs[j]

\* a caller is blocked on the lock while another is in the middle of its accesses
C1_Witness ==
    \E t, u \in Consumers :
        /\ t # u
        /\ At(t, "mutex_lock")
        /\ lock = u
        /\ At(u, "wait")
        /\ wtrace[u] # <<>>

\* C2: the lock is held by at most one thread, exactly by the thread that is
\* inside a function past its mutex_lock; a thread that has returned (success,
\* -ETIMEDOUT or -1) or has not locked yet does not own it, and the lock is free
\* when no call is in progress, so a failed call never blocks a later one.
C2_LockReleased ==
    /\ \A t \in Threads : Holds(t) => lock = t
    /\ \A t \in Threads : ~Holds(t) => lock # t
    /\ Cardinality({t \in Threads : Holds(t)}) <= 1
    /\ (\A t \in Threads : ~Running(t)) => lock = NoOwner

\* after a call has failed, a later call holds the lock
C2_Witness ==
    /\ failed
    /\ \E t \in Consumers : Holds(t) /\ lock = t /\ At(t, "outb")

\* C3: every write to the command or data port directly follows, in the same
\* call, a status poll that saw IBF = 0; every read of the data port directly
\* follows, in the same call, a status poll that saw OBF = 1.
C3_HandshakeBeforeAccess ==
    /\ acc.kind = "outb" =>
          /\ acc.pre.kind = "status"
          /\ acc.pre.c = acc.c
          /\ BitAnd(acc.pre.val, EC_COMMAND_BIT_IBF) = 0
    /\ acc.kind = "inb" =>
          /\ acc.pre.kind = "status"
          /\ acc.pre.c = acc.c
          /\ BitAnd(acc.pre.val, EC_COMMAND_BIT_OBF) # 0

\* write_gpio_status has made all its port writes and its data read
C3_Witness ==
    \E t \in Consumers :
        /\ op[t] = "write_gpio_status"
        /\ pc[t] = "main"
        /\ At(t, "return")
        /\ acc.kind = "outb"
        /\ Len(wtrace[t]) = 5

\* C4: a wait step that times out has made exactly EC_MAX_TIMEOUT_COUNT polls,
\* none of which saw the awaited bit; a wait step that returns 0 has made
\* exactly k polls, 1 <= k <= EC_MAX_TIMEOUT_COUNT, the k-th being the first
\* that saw the bit; the wait step accesses nothing but the status.
C4_WaitPollCount ==
    \A t \in Threads :
        /\ npoll[t] <= EC_MAX_TIMEOUT_COUNT
        /\ wres[t].f # "none" =>
              /\ wres[t].res \in {0, 0 - ETIMEDOUT}
              /\ ~wres[t].early
              /\ wres[t].res = 0 - ETIMEDOUT =>
                    /\ wres[t].polls = EC_MAX_TIMEOUT_COUNT
                    /\ ~Awaited(wres[t].f, wres[t].last)
              /\ wres[t].res = 0 =>
                    /\ wres[t].polls \in 1..EC_MAX_TIMEOUT_COUNT
                    /\ Awaited(wres[t].f, wres[t].last)
              /\ acc.kind = "status"
              /\ acc.port = EC_COMMAND_PORT

\* ec_wait_read has timed out
C4_Witness ==
    \E t \in Consumers :
        /\ wres[t].f = "ec_wait_read"
        /\ wres[t].res = 0 - ETIMEDOUT
        /\ wres[t].polls = EC_MAX_TIMEOUT_COUNT

\* C5: the first wait step that times out ends the call: the call is at its
\* error return with -ETIMEDOUT, it makes no port access afterwards, and the
\* port writes it has made are a prefix of the function's writes, none of them
\* issued twice.
C5_TimeoutEndsCall ==
    \A t \in Threads :
        /\ late[t] # "timeout"
        /\ ended[t] = "timeout" =>
              /\ pc[t] = "error"
              /\ At(t, "return")
              /\ RetVal(t) = 0 - ETIMEDOUT
        /\ Running(t) => IsPrefix(Written(t), Planned(t))

\* write_gpio_dir timed out in its last wait step, after index and opcode were written
C5_Witness ==
    \E t \in Consumers :
        /\ op[t] = "write_gpio_dir"
        /\ pc[t] = "error"
        /\ ended[t] = "timeout"
        /\ Len(wtrace[t]) = 4

\* C6: in the GPIO functions and read_ad_value, an index readback of 0xFF
\* ends the call: it is at its return of -1, has written only the index opcode
\* and the pin, read only the readback, and makes no port access afterwards.
C6_InvalidPinEndsCall ==
    \A t \in Consumers :
        op[t] \in PinOps =>
            /\ late[t] # "ff"
            /\ ended[t] = "ff" =>
                  /\ pc[t] = "bad"
                  /\ At(t, "return")
                  /\ RetVal(t) = 0 - 1
                  /\ wtrace[t] = << <<"outb", EC_COMMAND_PORT, IndexOpcode(op[t])>>,
                                    <<"outb", EC_STATUS_PORT, arg[t].a>>,
                                    <<"inb", EC_STATUS_PORT, UNDEFINED_BYTE>> >>

\* read_ad_value got 0xFF for its pin
C6_Witness ==
    \E t \in Consumers :
        op[t] = "read_ad_value" /\ pc[t] = "bad" /\ ended[t] = "ff"

\* C7: a read_ad_value that succeeds returns (((high << 8) | low) & 0x03FF) * multi * 100,
\* that is the low byte plus 256 times the two low bits of the high byte, times
\* multi, times 100, whatever the pin and the readback were.
C7_AdValue ==
    \A t \in Consumers :
        (op[t] = "read_ad_value" /\ pc[t] = "main" /\ At(t, "return")) =>
            LET low  == wtrace[t][5][3]
                high == wtrace[t][7][3]
            IN  RetVal(t) = ((high % 4) * 256 + low) * arg[t].b * 100

\* low = 0x34, high = 0x01, multi = 2 gives 61600
C7_Witness ==
    \E t \in Consumers :
        /\ op[t] = "read_ad_value" /\ pc[t] = "main" /\ At(t, "return")
        /\ wtrace[t][5][3] = 52
        /\ wtrace[t][7][3] = 1
        /\ arg[t].b = 2
        /\ RetVal(t) = 61600

\* the EC answers the select and the pin request of item i with something else than 0xFF
EcDefines(i) == ecTbl[i].def /\ ecTbl[i].pin # UNDEFINED_BYTE
FirstUndefined ==
    IF \A i \in Slots : EcDefines(i) THEN EC_MAX_TBL_NUM
    ELSE CHOOSE k \in Slots : ~EcDefines(k) /\ \A h \in 0..(k - 1) : EcDefines(h)
DiscoverySucceeded == probe \in {"registered", "failed"} /\ ret[ProbeThread] = 0
DiscoveryTimedOut == probe = "failed" /\ ret[ProbeThread] # 0

\* C8: with k the first item the EC does not define, discovery never selects an
\* item beyond k, and when it succeeds exactly the entries 0..k-1 are populated,
\* the entries k..31 hold 0xFF in both fields and the items selected are 0..k.
C8_StopsAtFirstUndefined ==
    /\ \A i \in selects : i <= FirstUndefined
    /\ DiscoverySucceeded =>
          /\ \A i \in Slots : i < FirstUndefined => dym_tbl[i] # UndefinedEntry
          /\ \A i \in Slots : i >= FirstUndefined => dym_tbl[i] = UndefinedEntry
          /\ selects = {i \in Slots : i <= FirstUndefined}

\* item 1 is the first undefined one and the EC defines items beyond it
C8_Witness ==
    /\ DiscoverySucceeded
    /\ FirstUndefined = 1
    /\ EcDefines(2)
    /\ dym_tbl[0] # UndefinedEntry

\* C9: for item i discovery writes the select request and i, reads the item back,
\* requests and reads the pin, requests and reads the device id, and stores both
\* at index i: every populated entry i is the EC's device id and pin of item i.
C9_EntryIsEcBinding ==
    /\ At(ProbeThread, "tbl_store") =>
          LET i == loc[ProbeThread].i
          IN  wtrace[ProbeThread] =
                 << <<"outb", EC_COMMAND_PORT, EC_TBL_WRITE_ITEM>>,
                    <<"outb", EC_STATUS_PORT, i>>,
                    <<"inb", EC_STATUS_PORT, i>>,
                    <<"outb", EC_COMMAND_PORT, EC_TBL_GET_PIN>>,
                    <<"inb", EC_STATUS_PORT, ecTbl[i].pin>>,
                    <<"outb", EC_COMMAND_PORT, EC_TBL_GET_DEVID>>,
                    <<"inb", EC_STATUS_PORT, ecTbl[i].dev>> >>
    /\ (probe # "init" /\ ~(pc[ProbeThread] = "main" /\ step[ProbeThread] <= 2)) =>
          \A i \in Slots :
              dym_tbl[i] # UndefinedEntry =>
                  /\ i \in selects
                  /\ dym_tbl[i] = [device_id |-> ecTbl[i].dev, hw_pin_num |-> ecTbl[i].pin]

\* all 32 items were defined and stored
C9_Witness ==
    /\ DiscoverySucceeded
    /\ dym_tbl[EC_MAX_TBL_NUM - 1] =
          [device_id |-> ecTbl[EC_MAX_TBL_NUM - 1].dev,
           hw_pin_num |-> ecTbl[EC_MAX_TBL_NUM - 1].pin]
    /\ dym_tbl[1] = [device_id |-> 81, hw_pin_num |-> 65]

\* C10 as stated: after a timeout in discovery no entry of the table holds a
\* device id or pin other than 0xFF.
C10_AllSentinelAfterTimeout ==
    DiscoveryTimedOut => \A i \in Slots : dym_tbl[i] = UndefinedEntry

\* C10: after a timeout in discovery the entries stored before the timeout are
\* still in the table: with the items 0..m selected, the populated entries are
\* exactly 0..m-1 or 0..m, each the EC's binding of its item, the rest 0xFF.
C10_StoredPrefixKept ==
    DiscoveryTimedOut =>
        \E n \in {Cardinality(selects) - 1, Cardinality(selects)} \cap Nat :
            /\ selects \subseteq 0..n
            /\ \A i \in Slots :
                  IF i < n
                  THEN dym_tbl[i] = [device_id |-> ecTbl[i].dev, hw_pin_num |-> ecTbl[i].pin]
                       /\ dym_tbl[i] # UndefinedEntry
                  ELSE dym_tbl[i] = UndefinedEntry

\* discovery timed out after it had stored items 0 and 1
C10_Witness ==
    /\ DiscoveryTimedOut
    /\ dym_tbl[0] # UndefinedEntry
    /\ dym_tbl[1] # UndefinedEntry

\* C11: a wait step that times out during discovery ends discovery with
\* -ETIMEDOUT and no port access after it; adv_ec_probe then fails with that same
\* error, reads no property, adds no sub-device, and no consumer ever probes or
\* calls an operation.
C11_DiscoveryTimeoutFailsProbe ==
    /\ late[ProbeThread] # "timeout"
    /\ ended[ProbeThread] = "timeout" =>
          /\ pc[ProbeThread] = "error"
          /\ At(ProbeThread, "return")
          /\ RetVal(ProbeThread) = 0 - ETIMEDOUT
    /\ (probe \in {"registered", "failed"} /\ ret[ProbeThread] # 0) =>
          /\ ret[ProbeThread] = 0 - ETIMEDOUT
          /\ probe = "failed"
          /\ probe_ret = 0 - ETIMEDOUT
          /\ props = NoProps
          /\ sub_dev_mask = 0
          /\ ~sub_devices_added(ADVEC_SUBDEV_HWMON)
          /\ ~sub_devices_added(ADVEC_SUBDEV_WDT)
          /\ hwmon = NoHwmon
          /\ ncalls = 0
          /\ \A t \in Threads : ~Running(t)

\* discovery timed out in its second item and the probe has failed
C11_Witness ==
    /\ probe = "failed"
    /\ ret[ProbeThread] = 0 - ETIMEDOUT
    /\ probe_ret = 0 - ETIMEDOUT
    /\ 1 \in selects

\* a consumer is active: it has probed, has called or is calling an operation
ConsumerActive ==
    \/ ncalls > 0
    \/ \E t \in Consumers : Running(t)
    \/ hwmon.state # "none"

\* C17: whenever a consumer is active, discovery has run and returned 0 and
\* adv_ec_probe has got past adv_ec_init_ec_data to the adding of the sub-devices.
C17_ConsumersAfterDiscovery ==
    ConsumerActive =>
        /\ probe = "registered"
        /\ ~Running(ProbeThread)
        /\ pc[ProbeThread] = "idle"
        /\ ret[ProbeThread] = 0
        /\ 0 \in selects
        /\ \A i \in Slots :
              \/ dym_tbl[i] = UndefinedEntry
              \/ dym_tbl[i] = [device_id |-> ecTbl[i].dev, hw_pin_num |-> ecTbl[i].pin]

\* the hwmon sub-device has probed and a consumer is calling, with item 0 discovered
C17_Witness ==
    /\ hwmon.state = "probed"
    /\ hwmon.hwmon_dev
    /\ \E t \in Consumers : Running(t) /\ wtrace[t] # <<>>
    /\ dym_tbl[0] # UndefinedEntry

\* the properties adv_ec_parse_prop was given are malformed
Malformed(p) ==
    \/ p.nb_ret < 0
    \/ p.sub_ret < 0
    \/ \E i \in 1..Len(p.sub_dev) : p.sub_dev[i] \notin 0..(ADVEC_SUBDEV_MAX - 1)

\* C19 as stated: malformed properties make adv_ec_probe fail with an error
\* before any status poll or port write has happened.
C19_MalformedRejectedBeforeTraffic ==
    (props.read /\ Malformed(props)) =>
        /\ probe = "failed"
        /\ probe_ret < 0
        /\ segs = <<>>

\* C20: adv_ec_hwmon_probe with a readable hwmon-profile: an index of 4 or more
\* (4 and 5 of the binding header included) gives -EINVAL, no profile and no hwmon
\* device; an index below 4 gives 0 with that profile attached; either way the
\* probe makes no port access.
C20_HwmonProfileRange ==
    /\ [](  (hwmon.state = "probed" /\ hwmon.prop_ret = 0) =>
              IF hwmon.index >= 4
              THEN /\ hwmon.ret = 0 - EINVAL
                   /\ hwmon.profile = NoHwmon.profile
                   /\ ~hwmon.hwmon_dev
              ELSE /\ hwmon.ret = 0
                   /\ hwmon.profile = hwmon.index
                   /\ hwmon.hwmon_dev )
    /\ [][ hwmon' # hwmon => UNCHANGED <<acc, segs, wtrace, ptrace, lock>> ]_vars

\* the probe was given AHC1EC0_HWMON_PRO_UNO1372G, index 5
C20_Witness ==
    /\ hwmon.state = "probed"
    /\ hwmon.prop_ret = 0
    /\ hwmon.index = 5
    /\ hwmon.ret = 0 - EINVAL

\* C12: a read_hw_ram(a) that succeeds after a write_hw_ram(a, v) that
\* succeeded, v being the last byte so written to a, returns 0 and the byte v.
C12_RamRoundTrip ==
    \A t \in Consumers :
        (/\ op[t] = "read_hw_ram"
         /\ pc[t] = "main"
         /\ At(t, "return")
         /\ arg[t].a \in DOMAIN ramw
         /\ ramw[arg[t].a] # 0 - 1) =>
            /\ RetVal(t) = 0
            /\ out[t] = ramw[arg[t].a]

\* 128 was written to address 255 and is read back
C12_Witness ==
    \E t \in Consumers :
        /\ op[t] = "read_hw_ram" /\ pc[t] = "main" /\ At(t, "return")
        /\ arg[t].a = 255
        /\ ramw[255] = 128
        /\ out[t] = 128

WaitClear == <<"wait", "ec_wait_write">>
WaitReady == <<"wait", "ec_wait_read">>
\* wait IBF clear, opcode to COMMAND, wait IBF clear, addr to DATA, wait OBF set,
\* one byte from DATA
ReadShape(opcode, addr, byte) ==
    << WaitClear, <<"outb", 666, opcode>>, WaitClear, <<"outb", 665, addr>>,
       WaitReady, <<"inb", 665, byte>> >>
\* wait IBF clear, opcode to COMMAND, wait IBF clear, addr to DATA, wait IBF clear,
\* v to DATA
WriteShape(opcode, addr, v) ==
    << WaitClear, <<"outb", 666, opcode>>, WaitClear, <<"outb", 665, addr>>,
       WaitClear, <<"outb", 665, v>> >>
Succeeded(t) == pc[t] = "main" /\ At(t, "return")

\* C13: the waits and port accesses of a successful read_hw_ram, write_hw_ram,
\* read_acpi_value and write_acpi_value are exactly the read shape with opcode
\* 0x88, the write shape with 0x89, the read shape with 0x80 and the write shape
\* with 0x81; the four opcodes differ from one another.
C13_RamAcpiSequences ==
    /\ \A t \in Consumers :
          Succeeded(t) =>
             /\ op[t] = "read_hw_ram" => ptrace[t] = ReadShape(136, arg[t].a, out[t])
             /\ op[t] = "write_hw_ram" => ptrace[t] = WriteShape(137, arg[t].a, arg[t].b)
             /\ op[t] = "read_acpi_value" => ptrace[t] = ReadShape(128, arg[t].a, out[t])
             /\ op[t] = "write_acpi_value" => ptrace[t] = WriteShape(129, arg[t].a, arg[t].b)
    /\ Cardinality({EC_HW_RAM_READ, EC_HW_RAM_WRITE, EC_ACPI_RAM_READ, EC_ACPI_DATA_WRITE}) = 4

\* the second call made, a read_acpi_value, has succeeded
C13_Witness ==
    /\ ncalls = 2
    /\ \E t \in Consumers :
          op[t] = "read_acpi_value" /\ Succeeded(t) /\ Len(ptrace[t]) = 6

GpioOps == {"read_gpio_status", "write_gpio_status", "read_gpio_dir", "write_gpio_dir"}
GpioReads == {"read_gpio_status", "read_gpio_dir"}
\* status read 0x11, status write 0x12, direction read 0x1D, direction write 0x1E
GpioOpcode(o) ==
    CASE o = "read_gpio_status"  -> 17
      [] o = "write_gpio_status" -> 18
      [] o = "read_gpio_dir"     -> 29
      [] o = "write_gpio_dir"    -> 30

\* C14: the port writes and data reads of a GPIO call are, in this order: 0x10 to
\* COMMAND, the pin to DATA, the readback from DATA, then, only after a readback
\* other than 0xFF, the operation's opcode to COMMAND and one byte read from DATA
\* (reads) or the value written to DATA (writes); a call that succeeds has made
\* all five.
C14_GpioOrder ==
    \A t \in Consumers :
        op[t] \in GpioOps =>
            LET w == wtrace[t]
            IN  /\ Len(w) <= 5
                /\ Len(w) >= 1 => w[1] = <<"outb", 666, 16>>
                /\ Len(w) >= 2 => w[2] = <<"outb", 665, arg[t].a>>
                /\ Len(w) >= 3 => (w[3][1] = "inb" /\ w[3][2] = 665)
                /\ Len(w) >= 4 => (w[3][3] # 255 /\ w[4] = <<"outb", 666, GpioOpcode(op[t])>>)
                /\ Len(w) >= 5 =>
                      IF op[t] \in GpioReads
                      THEN w[5] = <<"inb", 665, out[t]>>
                      ELSE w[5] = <<"outb", 665, arg[t].b>>
                /\ Succeeded(t) => Len(w) = 5

\* write_gpio_dir has written the direction after a valid readback
C14_Witness ==
    \E t \in Consumers :
        /\ op[t] = "write_gpio_dir"
        /\ Succeeded(t)
        /\ wtrace[t][3][3] = 1
        /\ wtrace[t][5] = <<"outb", 665, 1>>

\* C15: write_hwram_command makes one wait for IBF clear and, when it succeeds,
\* one port write, of b to COMMAND; it never accesses the DATA port; when the wait
\* times out it has written nothing and returns -ETIMEDOUT.
C15_CommandOnly ==
    \A t \in Consumers :
        op[t] = "write_hwram_command" =>
            /\ Len(wtrace[t]) <= 1
            /\ \A i \in 1..Len(wtrace[t]) : wtrace[t][i] = <<"outb", 666, arg[t].a>>
            /\ Succeeded(t) => ptrace[t] = << WaitClear, <<"outb", 666, arg[t].a>> >>
            /\ ended[t] = "timeout" =>
                  /\ wtrace[t] = <<>>
                  /\ ptrace[t] = <<>>
                  /\ At(t, "return")
                  /\ RetVal(t) = 0 - ETIMEDOUT
            /\ (At(t, "return") /\ ~Succeeded(t)) => ended[t] = "timeout"

\* write_hwram_command(40) has written its byte
C15_Witness ==
    \E t \in Consumers :
        /\ op[t] = "write_hwram_command"
        /\ Succeeded(t)
        /\ ptrace[t] = << WaitClear, <<"outb", 666, 40>> >>

\* adv_get_dynamic_tab has been called and has returned
TableReturned == probe # "init" /\ ~Running(ProbeThread)

\* C16: once adv_get_dynamic_tab has returned, no step of the core driver's probe,
\* of the hwmon probe or of a function called by the hwmon or watchdog driver
\* changes an entry of the table.
C16_TableConstant == [][TableReturned => dym_tbl' = dym_tbl]_vars

\* over a table with a bound first slot the hwmon driver has attached a profile and
\* a function called by a sub-device driver has returned
C16_Witness ==
    /\ TableReturned
    /\ dym_tbl[0].device_id # UNDEFINED_BYTE
    /\ hwmon.hwmon_dev
    /\ \E t \in Consumers : pc[t] = "done"

\* C18: every call of a logical operation or of discovery that has started
\* returns, whatever status bytes the EC answers, and a thread that has returned,
\* by a timeout or not, does not hold the lock, so that the calls made later get it.
C18_CallsReturn ==
    /\ \A t \in Threads : Running(t) ~> ~Running(t)
    /\ [](\A t \in Threads : ~Running(t) => lock # t)

\* a call runs past its mutex_lock after an earlier call has ended by a timeout
C18_Witness ==
    \E t \in Consumers :
        /\ failed
        /\ Holds(t)
        /\ cid[t] = MaxCalls

\* C23: the port writes and data reads of a read_ad_value call are, in this order:
\* 0x15 to COMMAND, the pin to DATA, the index readback from DATA, then, after a
\* readback other than 0xFF, 0x16 to COMMAND, the low byte from DATA, 0x1F to COMMAND,
\* the high byte from DATA; a call that succeeds has made the seven accesses, and
\* the bytes it combines are the fifth and the seventh.
C23_AdOrder ==
    \A t \in Consumers :
        op[t] = "read_ad_value" =>
            LET w == wtrace[t]
            IN  /\ Len(w) <= 7
                /\ Len(w) >= 1 => w[1] = <<"outb", 666, 21>>
                /\ Len(w) >= 2 => w[2] = <<"outb", 665, arg[t].a>>
                /\ Len(w) >= 3 => (w[3][1] = "inb" /\ w[3][2] = 665)
                /\ Len(w) >= 4 => (w[3][3] # 255 /\ w[4] = <<"outb", 666, 22>>)
                /\ Len(w) >= 5 => w[5] = <<"inb", 665, loc[t].LSB>>
                /\ Len(w) >= 6 => w[6] = <<"outb", 666, 31>>
                /\ Len(w) >= 7 => w[7] = <<"inb", 665, loc[t].MSB>>
                /\ Succeeded(t) => Len(w) = 7

\* a read_ad_value has read the low byte 0xFC and then the high byte 0x03
C23_Witness ==
    \E t \in Consumers :
        /\ op[t] = "read_ad_value"
        /\ Succeeded(t)
        /\ wtrace[t][5][3] = 252
        /\ wtrace[t][7][3] = 3

\* C25: when discovery has returned 0, an entry whose hw_pin_num is 0xFF is followed
\* only by entries with 0xFF in both fields.
C25_ContiguousPrefix ==
    DiscoverySucceeded =>
        \A i \in Slots :
            dym_tbl[i].hw_pin_num = UNDEFINED_BYTE =>
                \A j \in Slots : j > i => dym_tbl[j] = UndefinedEntry

\* discovery has returned 0 with entry 0 populated and entry 1 not, over an EC that
\* binds item 0, not item 1, and binds the items from MaxSlot on
C25_Witness ==
    /\ DiscoverySucceeded
    /\ dym_tbl[0] # UndefinedEntry
    /\ dym_tbl[1] = UndefinedEntry
    /\ ecTbl[MaxSlot].def

\* adv_get_dynamic_tab is past its mutex_lock
InDiscovery == op[ProbeThread] = "adv_get_dynamic_tab" /\ Holds(ProbeThread)

\* C26: from its mutex_lock to its return adv_get_dynamic_tab owns the lock, in
\* every item and between the items, no step in between changes the owner, and
\* every port access made in that time is its own.
C26_DiscoveryOneTransaction ==
    /\ [](InDiscovery =>
            /\ lock = ProbeThread
            /\ \A t \in Consumers : ~Holds(t)
            /\ acc.c \in {NoAccess.c, cid[ProbeThread]})
    /\ [][(InDiscovery /\ InDiscovery') => lock' = lock]_vars

\* discovery is between the select and the get-pin request of item 1
C26_Witness ==
    /\ InDiscovery
    /\ loc[ProbeThread].i = 1
    /\ Len(wtrace[ProbeThread]) = 3
    /\ lock = ProbeThread

\* C27 as stated: when discovery has returned, every entry has 0xFF in both fields
\* or in neither.
C27_BothOrNeither ==
    TableReturned =>
        \A i \in Slots :
            (dym_tbl[i].device_id = UNDEFINED_BYTE) <=> (dym_tbl[i].hw_pin_num = UNDEFINED_BYTE)

\* C27 amended: when discovery has returned, an entry whose hw_pin_num is 0xFF has
\* device_id 0xFF too, and an entry with a pin other than 0xFF has the device id
\* the EC answered for the item, which is 0xFF when the EC answered 0xFF.
C27_PinSentinelOnly ==
    TableReturned =>
        \A i \in Slots :
            /\ dym_tbl[i].hw_pin_num = UNDEFINED_BYTE => dym_tbl[i].device_id = UNDEFINED_BYTE
            /\ dym_tbl[i].hw_pin_num # UNDEFINED_BYTE => dym_tbl[i].device_id = ecTbl[i].dev

\* discovery has returned with device_id 0xFF and a pin other than 0xFF in entry 0
C27_Witness ==
    /\ TableReturned
    /\ dym_tbl[0].device_id = UNDEFINED_BYTE
    /\ dym_tbl[0].hw_pin_num # UNDEFINED_BYTE

\* C28: the value a successful read_ad_value returns is in 0..26086500, which is
\* 1023 * 255 * 100 and below 2^31, so it is neither -1 nor -ETIMEDOUT; the
\* invalid-pin return is -1, the timeout return -ETIMEDOUT, and the two differ.
C28_AdRange ==
    /\ 1023 * 255 * 100 = 26086500
    /\ 26086500 < 2147483647
    /\ 0 - 1 # 0 - ETIMEDOUT
    /\ \A t \in Consumers :
          (op[t] = "read_ad_value" /\ At(t, "return")) =>
             /\ pc[t] = "main" =>
                   /\ RetVal(t) \in 0..26086500
                   /\ RetVal(t) # 0 - 1
                   /\ RetVal(t) # 0 - ETIMEDOUT
             /\ pc[t] = "bad" => RetVal(t) = 0 - 1
             /\ pc[t] = "error" => RetVal(t) = 0 - ETIMEDOUT

\* low 0xFF, high 0xFF and multiplier 255 give the largest value
C28_Witness ==
    \E t \in Consumers :
        /\ op[t] = "read_ad_value"
        /\ Succeeded(t)
        /\ loc[t].LSB = 255
        /\ loc[t].MSB = 255
        /\ arg[t].b = 255
        /\ RetVal(t) = 26086500

ReadOps == {"read_hw_ram", "read_acpi_value", "read_gpio_status", "read_gpio_dir"}

\* C29: when one of the four byte reads returns, the byte behind the caller's
\* pointer is still the one it held at the call (0) if the result is not 0, and is
\* the byte of the last read of the DATA port if the result is 0.
C29_OutputOnlyOnSuccess ==
    \A t \in Consumers :
        (op[t] \in ReadOps /\ At(t, "return")) =>
            LET w == wtrace[t]
            IN  IF RetVal(t) = 0
                THEN /\ w # <<>>
                     /\ w[Len(w)] = <<"inb", 665, out[t]>>
                     /\ Len(w) = IF op[t] \in GpioReads THEN 5 ELSE 3
                ELSE out[t] = 0

\* read_gpio_dir returns -ETIMEDOUT after a valid index readback was read
C29_Witness ==
    \E t \in Consumers :
        /\ op[t] = "read_gpio_dir"
        /\ At(t, "return")
        /\ pc[t] = "error"
        /\ Len(wtrace[t]) = 4
        /\ wtrace[t][3][3] = 1
        /\ out[t] = 0

\* the function thread t ran has returned after its last call failed
ReadFailed(t) == frame[t].at = "returned" /\ LastRet(t) < 0

\* C21: a sensor read of the hwmon driver whose read_ad_value or read_acpi_value
\* failed does not return 0.
C21_FailedReadNotSuccess ==
    \A t \in Consumers :
        (frame[t].fn \in {"get_ec_in_vbat_input", "get_ec_in_v12_input", "get_ec_cpu_temp"}
            /\ ReadFailed(t)) => frame[t].ret # 0

\* C24: get_ec_in_v12_input calls read_ad_value on the v12 pin, and once more, on
\* the vdc pin, exactly when the first call returned -1; it makes no third call.
C24_FallbackOnlyOnInvalidPin ==
    \A t \in Consumers :
        frame[t].fn = "get_ec_in_v12_input" =>
            LET calls == frame[t].calls
                rets == frame[t].rets
            IN  /\ Len(calls) \in 1..2
                /\ calls[1] = AdCall(hwmon.pin_tbl.v12)
                /\ Len(calls) = 2 => (rets[1] = 0 - 1 /\ calls[2] = AdCall(hwmon.pin_tbl.vdc))
                /\ frame[t].at = "returned" =>
                      /\ Len(rets) = Len(calls)
                      /\ (Len(calls) = 2) <=> (rets[1] = 0 - 1)

\* one thread has returned after the fallback read, another after a first read
\* that timed out and no second one
C24_Witness ==
    \E t, u \in Consumers :
        /\ frame[t].fn = "get_ec_in_v12_input"
        /\ frame[t].at = "returned"
        /\ Len(frame[t].calls) = 2
        /\ frame[t].rets[1] = 0 - 1
        /\ frame[u].fn = "get_ec_in_v12_input"
        /\ frame[u].at = "returned"
        /\ frame[u].rets = << 0 - ETIMEDOUT >>

\* no function of the watchdog driver is in progress
WdtQuiescent == \A t \in Threads : frame[t].fn \in WdtFunctions => frame[t].at = "returned"

\* C30: whenever no watchdog operation is in progress, is_enable is 1 exactly when
\* the last of STOP and START the watchdog driver wrote to the command port was START.
C30_EnableTracksLastCommand ==
    (wdt.state = "probed" /\ WdtQuiescent) =>
        ((wdt.is_enable = 1) <=> (wdt.last = EC_WDT_START))

\* C22: once adv_ec_remove has destroyed the lock, no thread is inside a function
\* of the core driver, waiting for the lock or holding it.
C22_NoLockUseAfterDestroy ==
    probe \in {"mutex_destroyed", "removed"} =>
        \A t \in Threads : ~Running(t)

\* the reboot notifier has written STOP and returned NOTIFY_DONE
NotifierStopped(t) ==
    /\ frame[t].fn = "advwdt_notify_sys"
    /\ frame[t].at = "returned"
    /\ frame[t].calls = << HwRamCommand(EC_WDT_STOP) >>
    /\ frame[t].ret = 0

\* C31: once the reboot notifier has written STOP and returned NOTIFY_DONE, the last
\* of STOP and START written to the EC is not START.
C31_StaysOffAfterShutdown ==
    (\E t \in Threads : NotifierStopped(t)) => wdt.last # EC_WDT_START

\* the four operations of ec_wdt_start with wdd->timeout = timeout
StartOperations(timeout) ==
    << [op |-> "write_hw_ram", a |-> EC_RESET_DELAY_TIME_L, b |-> (timeout * 10 - 1) % 256],
       [op |-> "write_hw_ram", a |-> EC_RESET_DELAY_TIME_H, b |-> (timeout * 10 - 1) \div 256],
       [op |-> "write_hwram_command", a |-> EC_WDT_STOP, b |-> 0],
       [op |-> "write_hwram_command", a |-> EC_WDT_START, b |-> 0] >>

\* thread t returns from ec_wdt_start in this step
StartReturns(t) ==
    /\ frame[t].fn = "ec_wdt_start"
    /\ frame[t].at = "called"
    /\ frame'[t].at = "returned"

\* C32: ec_wdt_start issues the low delay byte, the high delay byte, STOP and START
\* in this order and sets is_enable = 1 and current_timeout = t only on returning 0
\* after them; after a failed delay write it sends neither command and leaves
\* is_enable and current_timeout alone; it holds lock_ioctl while it runs and has
\* released it whenever it has returned.
C32_StartSequence ==
    /\ [](\A t \in Threads :
            frame[t].fn = "ec_wdt_start" =>
                /\ IsPrefix(frame[t].calls, StartOperations(wdt.timeout))
                /\ Len(frame[t].calls) >= 3 => (frame[t].rets[1] = 0 /\ frame[t].rets[2] = 0)
                /\ frame[t].at = "called" => wdt.lock_ioctl = t
                /\ frame[t].at = "returned" =>
                      /\ wdt.lock_ioctl # t
                      /\ Len(frame[t].rets) = Len(frame[t].calls)
                      /\ (frame[t].ret = 0) <=>
                            (Len(frame[t].calls) = 4 /\ frame[t].rets[4] = 0))
    /\ [][\A t \in Threads :
            /\ StartReturns(t) =>
                  /\ frame'[t].ret = 0 =>
                        (wdt'.is_enable = 1 /\ wdt'.current_timeout = wdt.timeout)
                  /\ frame'[t].ret # 0 =>
                        (wdt'.is_enable = wdt.is_enable
                            /\ wdt'.current_timeout = wdt.current_timeout)
            /\ (frame[t].fn = "ec_wdt_start" /\ frame[t].at = "called" /\ ~StartReturns(t)) =>
                  (wdt'.current_timeout = wdt.current_timeout
                      /\ (wdt'.is_enable = 1 => wdt.is_enable = 1))]_vars

\* a start with the minimum timeout has returned 0
C32_Witness ==
    \E t \in Threads :
        /\ frame[t].fn = "ec_wdt_start"
        /\ frame[t].at = "returned"
        /\ frame[t].ret = 0
        /\ wdt.timeout = EC_WDT_MIN_TIMEOUT
        /\ wdt.current_timeout = EC_WDT_MIN_TIMEOUT

\* C33: ec_wdt_start with a timeout t outside 1..6553 returns -EINVAL without a
\* call into the core driver; with t in 1..6553 the delay t*10-1 is within 16 bits
\* and the bytes written to EC_RESET_DELAY_TIME_L and EC_RESET_DELAY_TIME_H are
\* its low and high byte.
C33_HeartbeatRange ==
    \A t \in Threads :
        frame[t].fn = "ec_wdt_start" =>
            LET calls == frame[t].calls
                delay == wdt.timeout * 10 - 1
            IN  IF wdt.timeout >= 1 /\ wdt.timeout <= 6553
                THEN /\ delay \in 0..65535
                     /\ Len(calls) >= 1
                     /\ calls[1].a = EC_RESET_DELAY_TIME_L
                     /\ calls[1].b = delay % 256
                     /\ Len(calls) >= 2 =>
                           /\ calls[2].a = EC_RESET_DELAY_TIME_H
                           /\ calls[2].b \in 0..255
                           /\ calls[2].b * 256 + calls[1].b = delay
                ELSE /\ calls = <<>>
                     /\ frame[t].at = "returned"
                     /\ frame[t].ret = 0 - EINVAL

\* both bytes of the largest delay have been written
C33_Witness ==
    \E t \in Threads :
        /\ frame[t].fn = "ec_wdt_start"
        /\ wdt.timeout = 6553
        /\ frame[t].rets = <<0, 0>>

\* C34: adv_ec_parse_prop accesses no element of sub_dev at an index of
\* ADVEC_SUBDEV_MAX or more.
C34_SubDevWithinArray ==
    props.read => sub_dev_indices(props) \subseteq 0..(ADVEC_SUBDEV_MAX - 1)

\* C35: with any profile, a read of a channel below the profile's count calls a
\* handler of the template, never a NULL entry or one outside it: the input
\* handlers are those of VBAT, 5VSB, Vin and VCORE, with Current for profile 0
\* only, the temperature handlers CPU Temp, with System Temp for profile 2 only;
\* a read that returns -EOPNOTSUPP has called nothing.
C35_HandlersDefined ==
    \A t \in Threads :
        /\ frame[t].at # "oops"
        /\ frame[t].fn \notin {"none", "ahc1ec0_read_in", "ahc1ec0_read_temp"} =>
              frame[t].fn \in
                 {"get_ec_in_vbat_input", "get_ec_in_v5_input", "get_ec_in_v12_input",
                  "get_ec_in_vcore_input", "get_ec_cpu_temp"}
                 \cup (IF hwmon.profile = 0 THEN {"get_ec_current1_input"} ELSE {})
                 \cup (IF hwmon.profile = 2 THEN {"get_ec_sys_temp"} ELSE {})
        /\ frame[t].fn \in {"ahc1ec0_read_in", "ahc1ec0_read_temp"} =>
              /\ frame[t].calls = <<>>
              /\ frame[t].at = "returned"
              /\ frame[t].ret \in {0, 0 - EOPNOTSUPP}
              /\ frame[t].ret = 0 => frame[t].val = <<0, 100000>>

\* the last input of profile 0, whose template entry follows the three empty ones,
\* has been read
C35_Witness ==
    /\ hwmon.profile = 0
    /\ frame[1].fn = "get_ec_current1_input"
    /\ frame[1].at = "returned"

====
